---- MODULE Spec2Model ----
(***************************************************************************)
(* Verification model of cshep4/resiliency-patterns.                       *)
(*                                                                         *)
(* Part I   the Run/IsLeader elector                                       *)
(*          (examples/high-availability/leader-election/.../lease.go)      *)
(* Part II  the payment circuit breaker                                    *)
(*          (external-dependency-risk/circuit-breaker/.../circuitbreaker.go)*)
(* Part III the AcquireLease/MonitorLease elector                          *)
(*          (high-availability/leader-election/.../file/lease.go)          *)
(* Part IV  construction of an elector from a configuration (both packages)*)
(* Part V   the order retry client                                         *)
(* Part VI  the user cache                                                 *)
(*          (external-dependency-risk/retry/internal/retry/retry.go)       *)
(* Part VII the mutex of the Run/IsLeader elector                          *)
(*                                                                         *)
(* Each part has its own specification; the variables of the other parts   *)
(* stay at their initial values under it.                                  *)
(***************************************************************************)
EXTENDS Integers, Sequences, FiniteSets, TLC

VARIABLES
    \* ---- Part I: LeaderElector (one per elector) and the shared lock file
    pc,          \* position of each elector's Run goroutine
    isLeader,    \* LeaderElector.isLeader
    cancelFunc,  \* LeaderElector.cancelFunc # nil
    ctxDone,     \* the context Run selects on has been cancelled
    lockFile,    \* the file at le.lockFile: existence, inode, contents
    now,         \* time.Now().Unix()
    started,     \* number of OnStartedLeading invocations per elector
    stopped,     \* number of OnStoppedLeading invocations per elector
    relStopped,  \* OnStoppedLeading invocations made from releaseLease
    stopCalls,   \* number of Stop() calls made on the watched elector
    faults,      \* number of I/O errors the file system has returned
    halted,      \* the elector's process was killed (its loop takes no step)
    renewals,    \* outcome of the elector's renewLease calls so far
    \* ---- Part II: circuitBreaker
    cbCfg,       \* failureThreshold, successThreshold, maxRequests
    cbState,     \* cb.state
    cbFailures,  \* cb.failures
    cbRequests,  \* cb.requests
    cbSuccesses, \* cb.successes
    cbSinceFail, \* clock.Now().Sub(cb.lastFail), saturated above the cooldown
    cbHealthy,   \* the underlying service has recovered for good
    cbLast,      \* outcome of the last ProcessPayment call
    cbTrials,    \* calls passed to the service in the latest HalfOpen period
    \* ---- Part III: the AcquireLease/MonitorLease elector (one per node)
    flPc,        \* position of each node's main goroutine / MonitorLease
    flFile,      \* the file at le.lockFile: existence, inode, contents
    flNow,       \* time.Now().Unix()
    flCtxDone,   \* the node's context has been cancelled
    flFaults,    \* number of I/O errors the file system has returned
    \* ---- Part IV: construction of an elector from a configuration
    ctKind,      \* which package's NewLeaderElector is called
    ctConfig,    \* the configuration handed to NewLeaderElector
    ctElector,   \* the elector returned (its effective configuration) or nil
    ctState,     \* what has happened to the elector so far
    \* ---- Part V: retryClient and one ProcessOrder call
    rtCfg,       \* maxAttempts, initialInterval, maxInterval, multiplier
    rtPc,        \* position of the ProcessOrder call
    rtI,         \* the loop variable i
    rtOutcomes,  \* outcome of each call made to the underlying service
    rtWaits,     \* the backoff delays waited for
    rtResult,    \* what ProcessOrder returned
    rtCtxDone,   \* the caller's context has been cancelled
    \* ---- Part VI: the user cache and the goroutines calling GetUser
    caTtl,       \* cache.ttl
    caEntries,   \* cache.entries: id -> entry
    caClock,     \* cache.clock.Now()
    caCalls,     \* per goroutine: where it is in GetUser, and its last result
    caFetched,   \* per goroutine: the entry its last successful fetch stored
    \* ---- Part VII: the elector's mutex
    mxLoop,      \* position of the Run goroutine
    mxRet,       \* where the loop goes on after stepDown or after a callback
    mxRole,      \* LeaderElector.isLeader
    mxWriter,    \* mu is write-locked
    mxPending,   \* a Lock() call waits for the readers to leave
    mxReaders,   \* the goroutines holding mu read-locked
    mxThreads,   \* per other goroutine: its position in IsLeader()
    mxCtxDone    \* the context of Run has been cancelled

leVars == <<pc, isLeader, cancelFunc, ctxDone, lockFile, now, started, stopped,
            relStopped, stopCalls, faults, halted, renewals>>
cbVars == <<cbCfg, cbState, cbFailures, cbRequests, cbSuccesses, cbSinceFail,
            cbHealthy, cbLast, cbTrials>>
flVars == <<flPc, flFile, flNow, flCtxDone, flFaults>>
ctVars == <<ctKind, ctConfig, ctElector, ctState>>
rtVars == <<rtCfg, rtPc, rtI, rtOutcomes, rtWaits, rtResult, rtCtxDone>>
caVars == <<caTtl, caEntries, caClock, caCalls, caFetched>>
mxVars == <<mxLoop, mxRet, mxRole, mxWriter, mxPending, mxReaders, mxThreads,
            mxCtxDone>>
vars == <<leVars, cbVars, flVars, ctVars, rtVars, caVars, mxVars>>

\* What the actions of one part leave unchanged: the other parts.
exceptLE == <<cbVars, flVars, ctVars, rtVars, caVars, mxVars>>
exceptCB == <<leVars, flVars, ctVars, rtVars, caVars, mxVars>>
exceptFL == <<leVars, cbVars, ctVars, rtVars, caVars, mxVars>>
exceptCT == <<leVars, cbVars, flVars, rtVars, caVars, mxVars>>
exceptRT == <<leVars, cbVars, flVars, ctVars, caVars, mxVars>>
exceptCA == <<leVars, cbVars, flVars, ctVars, rtVars, mxVars>>
exceptMX == <<leVars, cbVars, flVars, ctVars, rtVars, caVars>>

(***************************************************************************)
(* Bounds of the model.                                                    *)
(***************************************************************************)
Min(a, b) == IF a < b THEN a ELSE b

NumElectors == 3      \* electors constructed on the same lock file
NumCompetitors == 2   \* electors whose Run is started under Spec
MaxTime == 2          \* the clock stops advancing here
MaxFaults == 1        \* I/O errors injected over a run
MaxStopCalls == 2     \* Stop() calls counted on the watched elector

Electors == 1..NumElectors
Competitors == 1..Min(NumCompetitors, NumElectors)

\* The elector whose Stop() calls are counted (the electors are alike).
Watched == CHOOSE e \in Electors : \A f \in Electors : e <= f


(***************************************************************************)
(* Part I.  Configuration.                                                 *)
(***************************************************************************)
\* LeaseConfig.LeaseDuration in seconds (the flag default is 10s; the model
\* uses the same unit as the Unix timestamps written to the file).
LeaseDuration == 1

\* LeaseConfig.Identity: one character per elector.
Identity(e) == <<"A", "B", "C", "D", "E">>[e]

Nil == "nil"

\* The LeaderCallbacks value handed to NewLeaderElector.
Callbacks == [OnStartedLeading |-> "OnStartedLeading",
              OnStoppedLeading |-> "OnStoppedLeading"]

\* A plausible slip: the two callback slots wired the wrong way round.
NewLeaderElectorSwapped(callbacks) ==
    [onStarted |-> callbacks.OnStoppedLeading,
     onStopped |-> callbacks.OnStartedLeading]

\* NewLeaderElector: the callback fields of the elector.
NewLeaderElector(callbacks) ==
    [onStarted |-> callbacks.OnStartedLeading,
     onStopped |-> callbacks.OnStoppedLeading]

elector == NewLeaderElector(Callbacks)

(***************************************************************************)
(* Part I.  Lease record: fmt.Sprintf("%s:%d") and fmt.Sscanf("%s:%d").    *)
(* File contents are sequences of one-character strings.                   *)
(***************************************************************************)
Digits == <<"0", "1", "2", "3", "4", "5", "6", "7", "8", "9">>

IsDigit(c) == \E i \in 1..10 : Digits[i] = c
DigitVal(c) == (CHOOSE i \in 1..10 : Digits[i] = c) - 1
IsSpace(c) == c \in {" ", "\t", "\n", "\r"}

RECURSIVE Itoa(_)
Itoa(n) == IF n < 10 THEN <<Digits[n + 1]>>
           ELSE Itoa(n \div 10) \o <<Digits[(n % 10) + 1]>>

\* fmt.Sprintf("%s:%d", identity, timestamp)
Sprintf(identity, timestamp) == <<identity>> \o <<":">> \o Itoa(timestamp)

RECURSIVE SkipSpace(_)
SkipSpace(s) == IF s # <<>> /\ IsSpace(Head(s)) THEN SkipSpace(Tail(s)) ELSE s

\* The %s verb: the length of the run of non-space characters at the head.
RECURSIVE TokenLen(_)
TokenLen(s) == IF s = <<>> \/ IsSpace(Head(s)) THEN 0 ELSE 1 + TokenLen(Tail(s))

RECURSIVE DigitLen(_)
DigitLen(s) == IF s = <<>> \/ ~IsDigit(Head(s)) THEN 0 ELSE 1 + DigitLen(Tail(s))

RECURSIVE Atoi(_)
Atoi(s) == IF s = <<>> THEN 0
           ELSE Atoi(SubSeq(s, 1, Len(s) - 1)) * 10 + DigitVal(s[Len(s)])

ScanError == [err |-> TRUE, identity |-> <<>>, timestamp |-> 0]

\* fmt.Sscanf(data, "%s:%d", &identity, &timestamp)
Sscanf(data) ==
    LET s1 == SkipSpace(data)
        n == TokenLen(s1)
        rest == SubSeq(s1, n + 1, Len(s1))
    IN  IF n = 0 THEN ScanError
        ELSE IF rest = <<>> \/ Head(rest) # ":" THEN ScanError
        ELSE LET s2 == SkipSpace(Tail(rest))
                 d == DigitLen(s2)
             IN  IF d = 0 THEN ScanError
                 ELSE [err |-> FALSE,
                       identity |-> SubSeq(s1, 1, n),
                       timestamp |-> Atoi(SubSeq(s2, 1, d))]

NoFile == [exists |-> FALSE, inode |-> 0, data |-> <<>>]

\* isLeaseExpired, given the file as os.ReadFile finds it and the clock.
IsLeaseExpired(file, t) ==
    IF ~file.exists THEN TRUE
    ELSE LET r == Sscanf(file.data)
         IN  IF r.err THEN TRUE
             ELSE t - r.timestamp > LeaseDuration

\* IsLeader(): the lock-protected read of the role flag.
IsLeader(e) == isLeader[e]

(***************************************************************************)
(* Part I.  Initial state: electors constructed, none running, no file.    *)
(***************************************************************************)
LEInit ==
    /\ pc = [e \in Electors |-> "init"]
    /\ isLeader = [e \in Electors |-> FALSE]
    /\ cancelFunc = [e \in Electors |-> FALSE]
    /\ ctxDone = [e \in Electors |-> FALSE]
    /\ lockFile = NoFile
    /\ now = 0
    /\ started = [e \in Electors |-> 0]
    /\ stopped = [e \in Electors |-> 0]
    /\ relStopped = [e \in Electors |-> 0]
    /\ stopCalls = 0
    /\ faults = 0
    /\ halted = [e \in Electors |-> FALSE]
    /\ renewals = [e \in Electors |-> "none"]

\* A step of elector e's Run goroutine from position `at` to position `to`.
Goto(e, at, to) ==
    /\ pc[e] = at
    /\ ~halted[e]
    /\ pc' = [pc EXCEPT ![e] = to]

\* Invoking a callback slot: nil slots are skipped by the callers.
Invoke(e, slot) ==
    /\ started' = IF slot = "OnStartedLeading"
                  THEN [started EXCEPT ![e] = @ + 1] ELSE started
    /\ stopped' = IF slot = "OnStoppedLeading"
                  THEN [stopped EXCEPT ![e] = @ + 1] ELSE stopped

(***************************************************************************)
(* Run: lines 67-83.                                                       *)
(***************************************************************************)
\* Run up to the select: derive the cancellable context, store cancelFunc.
Run(e) ==
    /\ Goto(e, "init", "select")
    /\ cancelFunc' = [cancelFunc EXCEPT ![e] = TRUE]
    /\ UNCHANGED <<isLeader, ctxDone, lockFile, now, started, stopped,
                   relStopped, stopCalls, faults, halted,
                   renewals, exceptLE>>

\* The position after os.Stat in renewLease (line 136).
AfterRenewStat == IF lockFile.exists THEN "renewWrite" ELSE "tickStepDown"

\* The position after os.Stat in tryAcquireLease (line 113).
AfterAcquireStat == IF lockFile.exists THEN "acqRead" ELSE "acqOpen"

\* case <-ticker.C: tryAcquireOrRenewLease reads IsLeader() and makes the
\* os.Stat call of renewLease (leader) or of tryAcquireLease (follower).
SelectTick(e) ==
    /\ Goto(e, "select", IF IsLeader(e) THEN AfterRenewStat ELSE AfterAcquireStat)
    /\ renewals' = IF IsLeader(e) /\ ~lockFile.exists
                   THEN [renewals EXCEPT ![e] = "failed"] ELSE renewals
    /\ UNCHANGED <<isLeader, cancelFunc, ctxDone, lockFile, now, started,
                   stopped, relStopped, stopCalls, faults, halted,
                   exceptLE>>

\* case <-ctx.Done(): releaseLease starts with IsLeader().
SelectDone(e) ==
    /\ ctxDone[e]
    /\ Goto(e, "select", IF IsLeader(e) THEN "relStepDown" ELSE "relRemove")
    /\ UNCHANGED <<isLeader, cancelFunc, ctxDone, lockFile, now, started,
                   stopped, relStopped, stopCalls, faults, halted,
                   renewals, exceptLE>>

(***************************************************************************)
(* Stop: lines 91-95, and cancellation of the context given to Run.        *)
(***************************************************************************)
\* Stop() cancels the context when Run has stored cancelFunc and does nothing
\* otherwise; cancelling a cancelled context changes nothing.
Stop(e) ==
    /\ e = Watched => stopCalls < MaxStopCalls
    /\ stopCalls' = IF e = Watched THEN stopCalls + 1 ELSE stopCalls
    /\ ctxDone' = IF cancelFunc[e] THEN [ctxDone EXCEPT ![e] = TRUE] ELSE ctxDone
    /\ UNCHANGED <<pc, isLeader, cancelFunc, lockFile, now, started, stopped,
                   relStopped, faults, halted,
                   renewals, exceptLE>>

CancelContext(e) ==
    /\ ~ctxDone[e]
    /\ ctxDone' = [ctxDone EXCEPT ![e] = TRUE]
    /\ UNCHANGED <<pc, isLeader, cancelFunc, lockFile, now, started, stopped,
                   relStopped, stopCalls, faults, halted,
                   renewals, exceptLE>>

(***************************************************************************)
(* renewLease: lines 135-143.                                              *)
(***************************************************************************)
\* A renewLease that reports a successful write as a failure.
RenewWriteOkReturnsFalse(e) ==
    /\ Goto(e, "renewWrite", "tickStepDown")
    /\ lockFile' = [exists |-> TRUE,
                    inode |-> IF lockFile.exists THEN lockFile.inode ELSE e,
                    data |-> Sprintf(Identity(e), now)]
    /\ renewals' = [renewals EXCEPT ![e] = IF @ = "failed" THEN @ ELSE "ok"]
    /\ UNCHANGED <<isLeader, cancelFunc, ctxDone, now, started, stopped,
                   relStopped, stopCalls, faults, halted,
                   exceptLE>>

\* os.WriteFile succeeds: the file is created if missing, else rewritten in
\* place; renewLease returns true.
RenewWriteOk(e) ==
    /\ Goto(e, "renewWrite", "select")
    /\ lockFile' = [exists |-> TRUE,
                    inode |-> IF lockFile.exists THEN lockFile.inode ELSE e,
                    data |-> Sprintf(Identity(e), now)]
    /\ renewals' = [renewals EXCEPT ![e] = IF @ = "failed" THEN @ ELSE "ok"]
    /\ UNCHANGED <<isLeader, cancelFunc, ctxDone, now, started, stopped,
                   relStopped, stopCalls, faults, halted,
                   exceptLE>>

\* A Run that gives up and returns when the renewal write fails.
RenewWriteErrReturns(e) ==
    /\ faults < MaxFaults
    /\ Goto(e, "renewWrite", "returned")
    /\ faults' = faults + 1
    /\ renewals' = [renewals EXCEPT ![e] = "failed"]
    /\ UNCHANGED <<isLeader, cancelFunc, ctxDone, lockFile, now, started,
                   stopped, relStopped, stopCalls, halted,
                   exceptLE>>

\* os.WriteFile returns an error: renewLease returns false. (The record is
\* taken to be left as it was.)
RenewWriteErr(e) ==
    /\ faults < MaxFaults
    /\ Goto(e, "renewWrite", "tickStepDown")
    /\ faults' = faults + 1
    /\ renewals' = [renewals EXCEPT ![e] = "failed"]
    /\ UNCHANGED <<isLeader, cancelFunc, ctxDone, lockFile, now, started,
                   stopped, relStopped, stopCalls, halted,
                   exceptLE>>

(***************************************************************************)
(* stepDown: lines 178-187, at its two call sites.                         *)
(***************************************************************************)
\* A stepDown that forgets to clear the role flag.
StepDownLockKeepsRole(e, at, callback, ret) ==
    /\ Goto(e, at, IF isLeader[e] /\ elector.onStopped # Nil THEN callback ELSE ret)
    /\ isLeader' = isLeader

\* The critical section: wasLeader := isLeader; isLeader = false.
StepDownLock(e, at, callback, ret) ==
    /\ Goto(e, at, IF isLeader[e] /\ elector.onStopped # Nil THEN callback ELSE ret)
    /\ isLeader' = [isLeader EXCEPT ![e] = FALSE]

\* le.onStopped()
StepDownCallback(e, at, ret) ==
    /\ Goto(e, at, ret)
    /\ Invoke(e, elector.onStopped)

\* A tick that keeps the role after a failed renewal and goes on to acquire.
TickStepDownSkipped(e) ==
    /\ Goto(e, "tickStepDown", "acqStat")
    /\ UNCHANGED <<isLeader, cancelFunc, ctxDone, lockFile, now, started,
                   stopped, relStopped, stopCalls, faults, halted,
                   renewals, exceptLE>>

\* tryAcquireOrRenewLease line 103
TickStepDown(e) ==
    /\ StepDownLock(e, "tickStepDown", "tickOnStopped", "acqStat")
    /\ UNCHANGED <<cancelFunc, ctxDone, lockFile, now, started, stopped,
                   relStopped, stopCalls, faults, halted,
                   renewals, exceptLE>>

\* A stepDown after a failed renewal that does not tell the application.
TickOnStoppedSkipped(e) ==
    /\ Goto(e, "tickOnStopped", "acqStat")
    /\ UNCHANGED <<isLeader, cancelFunc, ctxDone, lockFile, now, started, stopped,
                   relStopped, stopCalls, faults, halted,
                   renewals, exceptLE>>

TickOnStopped(e) ==
    /\ StepDownCallback(e, "tickOnStopped", "acqStat")
    /\ UNCHANGED <<isLeader, cancelFunc, ctxDone, lockFile, now, relStopped,
                   stopCalls, faults, halted,
                   renewals, exceptLE>>

(***************************************************************************)
(* tryAcquireLease: lines 112-133.                                         *)
(***************************************************************************)
\* os.Stat(le.lockFile), when tryAcquireLease follows a stepDown (line 106).
AcquireStat(e) ==
    /\ Goto(e, "acqStat", AfterAcquireStat)
    /\ UNCHANGED <<isLeader, cancelFunc, ctxDone, lockFile, now, started,
                   stopped, relStopped, stopCalls, faults, halted,
                   renewals, exceptLE>>

\* A variant that removes the file it judges expired before creating its own.
AcquireCheckExpiredTakeover(e) ==
    /\ Goto(e, "acqRead", IF IsLeaseExpired(lockFile, now) THEN "acqOpen" ELSE "select")
    /\ lockFile' = IF IsLeaseExpired(lockFile, now) THEN NoFile ELSE lockFile
    /\ UNCHANGED <<isLeader, cancelFunc, ctxDone, now, started, stopped,
                   relStopped, stopCalls, faults, halted,
                   renewals, exceptLE>>

\* isLeaseExpired(): os.ReadFile, Sscanf, time.Since
AcquireCheckExpired(e) ==
    /\ Goto(e, "acqRead", IF IsLeaseExpired(lockFile, now) THEN "acqOpen" ELSE "select")
    /\ UNCHANGED <<isLeader, cancelFunc, ctxDone, lockFile, now, started,
                   stopped, relStopped, stopCalls, faults, halted,
                   renewals, exceptLE>>

\* os.OpenFile(O_CREATE|O_EXCL|O_WRONLY): fails when the path exists.
AcquireOpen(e) ==
    /\ Goto(e, "acqOpen", IF lockFile.exists THEN "select" ELSE "acqWrite")
    /\ lockFile' = IF lockFile.exists THEN lockFile
                   ELSE [exists |-> TRUE, inode |-> e, data |-> <<>>]
    /\ UNCHANGED <<isLeader, cancelFunc, ctxDone, now, started, stopped,
                   relStopped, stopCalls, faults, halted,
                   renewals, exceptLE>>

\* file.WriteString succeeds. It writes to the inode this elector created:
\* when that inode was unlinked meanwhile the path is not affected.
AcquireWriteOk(e) ==
    /\ Goto(e, "acqWrite", "becomeLeader")
    /\ lockFile' = IF lockFile.exists /\ lockFile.inode = e
                   THEN [lockFile EXCEPT !.data = Sprintf(Identity(e), now)]
                   ELSE lockFile
    /\ UNCHANGED <<isLeader, cancelFunc, ctxDone, now, started, stopped,
                   relStopped, stopCalls, faults, halted,
                   renewals, exceptLE>>

\* file.WriteString returns an error.
AcquireWriteErr(e) ==
    /\ faults < MaxFaults
    /\ Goto(e, "acqWrite", "acqCleanup")
    /\ faults' = faults + 1
    /\ UNCHANGED <<isLeader, cancelFunc, ctxDone, lockFile, now, started,
                   stopped, relStopped, stopCalls, halted,
                   renewals, exceptLE>>

\* os.Remove(le.lockFile) after the failed write; tryAcquireLease returns false.
AcquireCleanup(e) ==
    /\ Goto(e, "acqCleanup", "select")
    /\ lockFile' = NoFile
    /\ UNCHANGED <<isLeader, cancelFunc, ctxDone, now, started, stopped,
                   relStopped, stopCalls, faults, halted,
                   renewals, exceptLE>>

(***************************************************************************)
(* becomeLeader: lines 168-176.                                            *)
(***************************************************************************)
BecomeLeaderLock(e) ==
    /\ Goto(e, "becomeLeader", IF elector.onStarted # Nil THEN "onStarted" ELSE "select")
    /\ isLeader' = [isLeader EXCEPT ![e] = TRUE]
    /\ UNCHANGED <<cancelFunc, ctxDone, lockFile, now, started, stopped,
                   relStopped, stopCalls, faults, halted,
                   renewals, exceptLE>>

BecomeLeaderCallback(e) ==
    /\ Goto(e, "onStarted", "select")
    /\ Invoke(e, elector.onStarted)
    /\ UNCHANGED <<isLeader, cancelFunc, ctxDone, lockFile, now, relStopped,
                   stopCalls, faults, halted,
                   renewals, exceptLE>>

(***************************************************************************)
(* releaseLease: lines 161-166, after which Run returns.                   *)
(***************************************************************************)
\* A releaseLease that removes the file without stepping down.
ReleaseStepDownSkipped(e) ==
    /\ Goto(e, "relStepDown", "relRemove")
    /\ UNCHANGED <<isLeader, cancelFunc, ctxDone, lockFile, now, started, stopped,
                   relStopped, stopCalls, faults, halted,
                   renewals, exceptLE>>

ReleaseStepDown(e) ==
    /\ StepDownLock(e, "relStepDown", "relOnStopped", "relRemove")
    /\ UNCHANGED <<cancelFunc, ctxDone, lockFile, now, started, stopped,
                   relStopped, stopCalls, faults, halted,
                   renewals, exceptLE>>

ReleaseOnStopped(e) ==
    /\ StepDownCallback(e, "relOnStopped", "relRemove")
    /\ relStopped' = [relStopped EXCEPT ![e] = @ + 1]
    /\ UNCHANGED <<isLeader, cancelFunc, ctxDone, lockFile, now, stopCalls,
                   faults, halted,
                   renewals, exceptLE>>

\* A Run that goes back to its select after releaseLease.
ReleaseRemoveAndLoop(e) ==
    /\ Goto(e, "relRemove", "select")
    /\ lockFile' = NoFile
    /\ UNCHANGED <<isLeader, cancelFunc, ctxDone, now, started, stopped,
                   relStopped, stopCalls, faults, halted,
                   renewals, exceptLE>>

\* os.Remove(le.lockFile) succeeds (or finds no file); Run returns.
ReleaseRemove(e) ==
    /\ Goto(e, "relRemove", "returned")
    /\ lockFile' = NoFile
    /\ UNCHANGED <<isLeader, cancelFunc, ctxDone, now, started, stopped,
                   relStopped, stopCalls, faults, halted,
                   renewals, exceptLE>>

\* os.Remove returns an error, which releaseLease ignores; Run returns.
ReleaseRemoveErr(e) ==
    /\ faults < MaxFaults
    /\ lockFile.exists
    /\ Goto(e, "relRemove", "returned")
    /\ faults' = faults + 1
    /\ UNCHANGED <<isLeader, cancelFunc, ctxDone, lockFile, now, started,
                   stopped, relStopped, stopCalls, halted,
                   renewals, exceptLE>>

(***************************************************************************)
(* Environment.                                                            *)
(***************************************************************************)
\* One second passes.
AdvanceTime ==
    /\ now < MaxTime
    /\ now' = now + 1
    /\ UNCHANGED <<pc, isLeader, cancelFunc, ctxDone, lockFile, started,
                   stopped, relStopped, stopCalls, faults, halted,
                   renewals, exceptLE>>

\* The elector's process is killed: its loop halts, its record stays.
Halt(e) ==
    /\ \A f \in Electors : ~halted[f]
    /\ pc[e] # "init"
    /\ halted' = [halted EXCEPT ![e] = TRUE]
    /\ UNCHANGED <<pc, isLeader, cancelFunc, ctxDone, lockFile, now, started,
                   stopped, relStopped, stopCalls, faults,
                   renewals, exceptLE>>

\* Stop() called on the elector that is leading, no elector having been
\* stopped before.
StopLeader(e) ==
    /\ IsLeader(e)
    /\ \A f \in Electors : ~ctxDone[f]
    /\ Stop(e)

\* Ticks on which the file is where the elector expects it.
TickStep(e) ==
    \/ Run(e)
    \/ SelectTick(e)
    \/ RenewWriteOk(e)
    \/ AcquireCheckExpired(e)
    \/ AcquireOpen(e)
    \/ AcquireWriteOk(e)
    \/ BecomeLeaderLock(e)
    \/ BecomeLeaderCallback(e)

\* The rest of a tick on which renewLease returned false.
RenewFailedStep(e) ==
    \/ TickStepDown(e)
    \/ TickOnStopped(e)
    \/ AcquireStat(e)

\* The cancellation branch of Run.
ReleaseStep(e) ==
    \/ SelectDone(e)
    \/ ReleaseStepDown(e)
    \/ ReleaseOnStopped(e)
    \/ ReleaseRemove(e)

\* The steps that follow an I/O error.
FaultStep(e) ==
    \/ RenewWriteErr(e)
    \/ AcquireWriteErr(e)
    \/ AcquireCleanup(e)
    \/ ReleaseRemoveErr(e)

\* Spec: the competitors with ticks, renewals, I/O errors, Stop and cancellation.
LENext ==
    \/ \E e \in Competitors : TickStep(e)
    \/ \E e \in Competitors : RenewFailedStep(e)
    \/ \E e \in Competitors : ReleaseStep(e)
    \/ \E e \in Competitors : FaultStep(e)
    \/ \E e \in Competitors : Stop(e)
    \/ \E e \in Competitors : CancelContext(e)
    \/ AdvanceTime

\* TrioSpec: every constructed elector runs; the file system never fails.
TrioNext ==
    \/ \E e \in Electors : TickStep(e)
    \/ \E e \in Electors : RenewFailedStep(e)
    \/ \E e \in Electors : ReleaseStep(e)
    \/ \E e \in Electors : CancelContext(e)
    \/ AdvanceTime

\* FailoverSpec: the competitors tick, one of them may be killed, nobody is
\* stopped and the file system never fails.
FailoverNext ==
    \/ \E e \in Competitors : TickStep(e)
    \/ \E e \in Competitors : Halt(e)
    \/ AdvanceTime

\* HandoverSpec: the competitors tick, and Stop() is called once, on the
\* elector that leads; the file system never fails.
HandoverNext ==
    \/ \E e \in Competitors : TickStep(e)
    \/ \E e \in Competitors : ReleaseStep(e)
    \/ \E e \in Competitors : StopLeader(e)
    \/ AdvanceTime

(***************************************************************************)
(* Part II.  The payment circuit breaker.                                  *)
(***************************************************************************)
MaxThreshold == 2     \* failureThreshold, successThreshold, maxRequests <= this
MaxCount == 4         \* cb.failures and cb.successes are not driven beyond this
Cooldown == 1         \* cb.cooldown, in clock steps

Closed == "Closed"
Open == "Open"
HalfOpen == "HalfOpen"

ErrCircuitOpen == "ErrCircuitOpen"
ErrCircuitHalfOpen == "ErrCircuitHalfOpen"

\* New: every threshold must be greater than 0; the state starts Closed, the
\* counters at 0 and lastFail at the zero time (so Now().Sub(lastFail) is huge).
CBInit ==
    /\ cbCfg \in [failureThreshold : 1..MaxThreshold,
                  successThreshold : 1..MaxThreshold,
                  maxRequests : 1..MaxThreshold]
    /\ cbState = Closed
    /\ cbFailures = 0
    /\ cbRequests = 0
    /\ cbSuccesses = 0
    /\ cbSinceFail = Cooldown + 1
    /\ cbHealthy = FALSE
    /\ cbLast = [result |-> "none", parity |-> 0]
    /\ cbTrials = 0

\* The outcome is recorded together with the parity of the number of calls.
Returned(result) == cbLast' = [result |-> result, parity |-> 1 - cbLast.parity]

\* A cooldown test that lets the request through when exactly the cooldown
\* has passed.
CooledEarly == cbState = Open /\ cbSinceFail >= Cooldown

\* Line 123: the cooldown has passed since the last failure.
Cooled == cbState = Open /\ cbSinceFail > Cooldown

\* Line 132: the HalfOpen request limit is reached.
LimitReached(state, requests) == state = HalfOpen /\ requests >= cbCfg.maxRequests

\* A threshold test that opens the circuit one failure early.
TripsEarly(failures) == failures + 1 >= cbCfg.failureThreshold

\* A threshold test that opens the circuit one failure late.
TripsLate(failures) == failures > cbCfg.failureThreshold

\* Line 142: the failure count opens the circuit.
Trips(failures) == failures >= cbCfg.failureThreshold

\* A success test that closes the circuit on the first success.
RecoveredAtOnce(successes) == successes >= 1

\* Line 150: the success count closes the circuit.
Recovered(successes) == successes >= cbCfg.successThreshold

\* circuitBreaker.call, lines 116-156; svcErr is whether fn() returns an error.
\* The lock is held for the whole call, fn() included.
Call(svcErr) ==
    LET state1 == IF Cooled THEN HalfOpen ELSE cbState
        requests1 == IF Cooled THEN 0 ELSE cbRequests
        trials1 == IF Cooled THEN 0 ELSE cbTrials
        trials2 == IF state1 = HalfOpen THEN Min(trials1 + 1, MaxCount) ELSE trials1
    IN  IF cbState = Open /\ ~Cooled
        THEN /\ Returned(ErrCircuitOpen)
             /\ UNCHANGED <<cbState, cbFailures, cbRequests, cbSuccesses,
                            cbSinceFail, cbTrials>>
        ELSE IF LimitReached(state1, requests1)
        THEN /\ Returned(ErrCircuitHalfOpen)
             /\ cbState' = state1
             /\ cbRequests' = requests1
             /\ cbTrials' = trials1
             /\ UNCHANGED <<cbFailures, cbSuccesses, cbSinceFail>>
        ELSE IF svcErr
        THEN /\ cbSuccesses' = 0
             /\ cbFailures' = cbFailures + 1
             /\ cbSinceFail' = 0
             /\ cbState' = IF Trips(cbFailures + 1) THEN Open ELSE state1
             /\ cbRequests' = requests1 + 1
             /\ cbTrials' = trials2
             /\ Returned("err")
        ELSE /\ cbSuccesses' = cbSuccesses + 1
             /\ cbFailures' = 0
             /\ cbState' = IF Recovered(cbSuccesses + 1) THEN Closed ELSE state1
             /\ cbRequests' = 0
             /\ cbTrials' = trials2
             /\ Returned("ok")
             /\ UNCHANGED cbSinceFail

\* ProcessPayment while the underlying service answers successfully.
ProcessPaymentOk ==
    /\ cbSuccesses < MaxCount
    /\ Call(FALSE)
    /\ UNCHANGED <<cbCfg, cbHealthy, exceptCB>>

\* ProcessPayment while the underlying service returns an error.
ProcessPaymentErr ==
    /\ ~cbHealthy
    /\ cbFailures < MaxCount
    /\ Call(TRUE)
    /\ UNCHANGED <<cbCfg, cbHealthy, exceptCB>>

\* A clock whose timer moves the breaker to HalfOpen when the cooldown ends.
CBAdvanceClockTimer ==
    /\ cbSinceFail' = Min(cbSinceFail + 1, Cooldown + 1)
    /\ cbSinceFail' # cbSinceFail
    /\ cbState' = IF cbState = Open /\ cbSinceFail' > Cooldown THEN HalfOpen ELSE cbState
    /\ UNCHANGED <<cbCfg, cbFailures, cbRequests, cbSuccesses,
                   cbHealthy, cbLast, cbTrials, exceptCB>>

\* The clock advances by one step.
CBAdvanceClock ==
    /\ cbSinceFail' = Min(cbSinceFail + 1, Cooldown + 1)
    /\ cbSinceFail' # cbSinceFail
    /\ UNCHANGED <<cbCfg, cbState, cbFailures, cbRequests, cbSuccesses,
                   cbHealthy, cbLast, cbTrials, exceptCB>>

\* From here on every call that reaches the service succeeds.
ServiceRecovers ==
    /\ ~cbHealthy
    /\ cbHealthy' = TRUE
    /\ UNCHANGED <<cbCfg, cbState, cbFailures, cbRequests, cbSuccesses,
                   cbSinceFail, cbLast, cbTrials, exceptCB>>

CBNext ==
    \/ ProcessPaymentOk
    \/ ProcessPaymentErr
    \/ CBAdvanceClock
    \/ ServiceRecovers

\* The breaker before New: the circuit-breaker variables under Part I.
CBIdle ==
    /\ cbCfg = [failureThreshold |-> 1, successThreshold |-> 1, maxRequests |-> 1]
    /\ cbState = Closed
    /\ cbFailures = 0
    /\ cbRequests = 0
    /\ cbSuccesses = 0
    /\ cbSinceFail = Cooldown + 1
    /\ cbHealthy = FALSE
    /\ cbLast = [result |-> "none", parity |-> 0]
    /\ cbTrials = 0

(***************************************************************************)
(* Part III.  The AcquireLease/MonitorLease elector (file/lease.go) as     *)
(* cmd/main.go drives it: AcquireLease, then MonitorLease until it returns.*)
(***************************************************************************)
NumNodes == 3         \* processes sharing the lock file
FlMaxTime == 4        \* the clock stops advancing here
FlMaxFaults == 1      \* I/O errors injected over a run

Nodes == 1..NumNodes

\* const leaseDuration, in the unit of the Unix timestamps in the file.
leaseDuration == 2

\* main.go: nodeID := fmt.Sprintf("%d", os.Getpid())
NodeID(n) == Itoa(n)

\* fmt.Sprintf("%s:%d", le.identity, time.Now().Unix())
LeaseData(identity, timestamp) == identity \o <<":">> \o Itoa(timestamp)

\* strings.Split(s, ":")
RECURSIVE Split(_)
Split(s) ==
    IF \A i \in 1..Len(s) : s[i] # ":" THEN <<s>>
    ELSE LET i == CHOOSE k \in 1..Len(s) :
                      s[k] = ":" /\ \A j \in 1..(k - 1) : s[j] # ":"
         IN  <<SubSeq(s, 1, i - 1)>> \o Split(SubSeq(s, i + 1, Len(s)))

\* strconv.ParseInt(s, 10, 64): an optional sign, then one or more digits.
ParseInt(s) ==
    LET signed == s # <<>> /\ Head(s) \in {"+", "-"}
        body == IF signed THEN Tail(s) ELSE s
    IN  IF body = <<>> \/ \E i \in 1..Len(body) : ~IsDigit(body[i])
        THEN [err |-> TRUE, value |-> 0]
        ELSE [err |-> FALSE,
              value |-> IF signed /\ Head(s) = "-" THEN 0 - Atoi(body) ELSE Atoi(body)]

\* os.ReadFile of the lock file followed by the parsing shared by
\* isLeaseExpired, isCurrentLeader and shouldRenewLease.
ReadLease(file) ==
    IF ~file.exists THEN [err |-> TRUE, holder |-> <<>>, timestamp |-> 0]
    ELSE LET parts == Split(file.data)
         IN  IF Len(parts) # 2 THEN [err |-> TRUE, holder |-> <<>>, timestamp |-> 0]
             ELSE LET ts == ParseInt(parts[2])
                  IN  [err |-> ts.err, holder |-> parts[1], timestamp |-> ts.value]

\* An isLeaseExpired that counts the lease as expired once its age reaches
\* leaseDuration.
FlIsLeaseExpiredAtDuration(file, t) ==
    LET r == ReadLease(file)
    IN  IF r.err THEN TRUE ELSE t - r.timestamp >= leaseDuration

\* leaderElector.isLeaseExpired (file/lease.go)
FlIsLeaseExpired(file, t) ==
    LET r == ReadLease(file)
    IN  IF r.err THEN TRUE ELSE t - r.timestamp > leaseDuration

\* leaderElector.isCurrentLeader
IsCurrentLeader(n, file, t) ==
    LET r == ReadLease(file)
    IN  IF r.err THEN FALSE
        ELSE IF r.holder # NodeID(n) THEN FALSE
        ELSE t - r.timestamp <= leaseDuration

\* A shouldRenewLease that waits for the whole lease duration to pass.
ShouldRenewLeaseLate(file, t) ==
    LET r == ReadLease(file)
    IN  IF r.err THEN FALSE ELSE t - r.timestamp > leaseDuration

\* leaderElector.shouldRenewLease: past half of the lease duration.
ShouldRenewLease(file, t) ==
    LET r == ReadLease(file)
    IN  IF r.err THEN FALSE ELSE 2 * (t - r.timestamp) > leaseDuration

\* Every node has constructed its elector; nothing runs and no file exists.
FLInit ==
    /\ flPc = [n \in Nodes |-> "new"]
    /\ flFile = NoFile
    /\ flNow = 0
    /\ flCtxDone = [n \in Nodes |-> FALSE]
    /\ flFaults = 0

FlGoto(n, at, to) ==
    /\ flPc[n] = at
    /\ flPc' = [flPc EXCEPT ![n] = to]

\* tryAcquireLease line 85: os.Stat decides between the expiry check and
\* the exclusive create.
AfterStat == IF flFile.exists THEN "acqRead" ELSE "acqOpen"

(***************************************************************************)
(* AcquireLease: lines 52-79, and tryAcquireLease: lines 83-113.           *)
(***************************************************************************)
\* The immediate first attempt (line 56), up to its os.Stat.
FlAcquireLease(n) ==
    /\ FlGoto(n, "new", AfterStat)
    /\ UNCHANGED <<flFile, flNow, flCtxDone, flFaults, exceptFL>>

\* case <-ticker.C: another attempt, up to its os.Stat.
FlAcquireTick(n) ==
    /\ FlGoto(n, "acqSelect", AfterStat)
    /\ UNCHANGED <<flFile, flNow, flCtxDone, flFaults, exceptFL>>

\* case <-ctx.Done(): AcquireLease returns ctx.Err() and main exits.
FlAcquireDone(n) ==
    /\ flCtxDone[n]
    /\ FlGoto(n, "acqSelect", "failed")
    /\ UNCHANGED <<flFile, flNow, flCtxDone, flFaults, exceptFL>>

\* isLeaseExpired on the file that os.Stat found.
FlAcquireCheckExpired(n) ==
    /\ FlGoto(n, "acqRead",
              IF FlIsLeaseExpired(flFile, flNow) THEN "acqOpen" ELSE "acqSelect")
    /\ UNCHANGED <<flFile, flNow, flCtxDone, flFaults, exceptFL>>

\* os.ReadFile fails inside isLeaseExpired: the lease counts as expired.
FlAcquireReadErr(n) ==
    /\ flFaults < FlMaxFaults
    /\ FlGoto(n, "acqRead", "acqOpen")
    /\ flFaults' = flFaults + 1
    /\ UNCHANGED <<flFile, flNow, flCtxDone, exceptFL>>

\* A variant that opens the file without O_EXCL, truncating what is there.
FlAcquireOpenShared(n) ==
    /\ FlGoto(n, "acqOpen", "acqWrite")
    /\ flFile' = [exists |-> TRUE, inode |-> n, data |-> <<>>]
    /\ UNCHANGED <<flNow, flCtxDone, flFaults, exceptFL>>

\* os.OpenFile(O_CREATE|O_EXCL|O_WRONLY): fails when the path exists.
FlAcquireOpen(n) ==
    /\ FlGoto(n, "acqOpen", IF flFile.exists THEN "acqSelect" ELSE "acqWrite")
    /\ flFile' = IF flFile.exists THEN flFile
                 ELSE [exists |-> TRUE, inode |-> n, data |-> <<>>]
    /\ UNCHANGED <<flNow, flCtxDone, flFaults, exceptFL>>

\* file.WriteString succeeds, on the inode this node created; tryAcquireLease
\* returns true, AcquireLease returns nil and main starts MonitorLease.
FlAcquireWriteOk(n) ==
    /\ FlGoto(n, "acqWrite", "monSelect")
    /\ flFile' = IF flFile.exists /\ flFile.inode = n
                 THEN [flFile EXCEPT !.data = LeaseData(NodeID(n), flNow)]
                 ELSE flFile
    /\ UNCHANGED <<flNow, flCtxDone, flFaults, exceptFL>>

\* file.WriteString returns an error.
FlAcquireWriteErr(n) ==
    /\ flFaults < FlMaxFaults
    /\ FlGoto(n, "acqWrite", "acqCleanup")
    /\ flFaults' = flFaults + 1
    /\ UNCHANGED <<flFile, flNow, flCtxDone, exceptFL>>

\* A tryAcquireLease that leaves the file it created behind when its write
\* fails.
FlAcquireCleanupKeepsFile(n) ==
    /\ FlGoto(n, "acqCleanup", "acqSelect")
    /\ UNCHANGED <<flFile, flNow, flCtxDone, flFaults, exceptFL>>

\* os.Remove(le.lockFile) after the failed write; tryAcquireLease returns false.
FlAcquireCleanup(n) ==
    /\ FlGoto(n, "acqCleanup", "acqSelect")
    /\ flFile' = NoFile
    /\ UNCHANGED <<flNow, flCtxDone, flFaults, exceptFL>>

(***************************************************************************)
(* MonitorLease: lines 146-186.                                            *)
(***************************************************************************)
\* A cancellation branch that goes through the lease-lost exit, onShutdown
\* included.
FlMonitorDoneShutsDown(n) ==
    /\ flCtxDone[n]
    /\ FlGoto(n, "monSelect", "monLost")
    /\ UNCHANGED <<flFile, flNow, flCtxDone, flFaults, exceptFL>>

\* case <-ctx.Done(): monitoring stops (lines 155-157).
FlMonitorDone(n) ==
    /\ flCtxDone[n]
    /\ FlGoto(n, "monSelect", "monCancelled")
    /\ UNCHANGED <<flFile, flNow, flCtxDone, flFaults, exceptFL>>

\* os.Remove(le.lockFile) on the cancellation path (line 158).
FlMonitorCancelRemove(n) ==
    /\ FlGoto(n, "monCancelled", "monCancelReturn")
    /\ flFile' = NoFile
    /\ UNCHANGED <<flNow, flCtxDone, flFaults, exceptFL>>

\* case <-ticker.C: isCurrentLeader() (line 165).
FlMonitorTick(n) ==
    /\ FlGoto(n, "monSelect",
              IF IsCurrentLeader(n, flFile, flNow) THEN "monShouldRenew" ELSE "monLost")
    /\ UNCHANGED <<flFile, flNow, flCtxDone, flFaults, exceptFL>>

\* case <-ticker.C with os.ReadFile failing inside isCurrentLeader.
FlMonitorReadErr(n) ==
    /\ flFaults < FlMaxFaults
    /\ FlGoto(n, "monSelect", "monLost")
    /\ flFaults' = flFaults + 1
    /\ UNCHANGED <<flFile, flNow, flCtxDone, exceptFL>>

\* onShutdown() (line 168); the callback of main.go cancels the context.
FlOnShutdown(n) ==
    /\ FlGoto(n, "monLost", "monLostRemove")
    /\ flCtxDone' = [flCtxDone EXCEPT ![n] = TRUE]
    /\ UNCHANGED <<flFile, flNow, flFaults, exceptFL>>

\* os.Remove(le.lockFile) after the lease was lost (line 171).
FlMonitorLostRemove(n) ==
    /\ FlGoto(n, "monLostRemove", "monLostReturn")
    /\ flFile' = NoFile
    /\ UNCHANGED <<flNow, flCtxDone, flFaults, exceptFL>>

\* MonitorLease returns (line 162 or 175).
FlMonitorReturn(n) ==
    /\ \/ FlGoto(n, "monCancelReturn", "exited")
       \/ FlGoto(n, "monLostReturn", "exited")
    /\ UNCHANGED <<flFile, flNow, flCtxDone, flFaults, exceptFL>>

\* shouldRenewLease() (line 179).
FlShouldRenew(n) ==
    /\ FlGoto(n, "monShouldRenew",
              IF ShouldRenewLease(flFile, flNow) THEN "monRenew" ELSE "monSelect")
    /\ UNCHANGED <<flFile, flNow, flCtxDone, flFaults, exceptFL>>

\* renewLease: os.WriteFile creates or truncates the path and writes.
FlRenewOk(n) ==
    /\ FlGoto(n, "monRenew", "monSelect")
    /\ flFile' = [exists |-> TRUE,
                  inode |-> IF flFile.exists THEN flFile.inode ELSE n,
                  data |-> LeaseData(NodeID(n), flNow)]
    /\ UNCHANGED <<flNow, flCtxDone, flFaults, exceptFL>>

\* renewLease fails: the error is logged and the loop goes on. The file is
\* as it was, or truncated when the failure came after the open.
FlRenewErr(n) ==
    /\ flFaults < FlMaxFaults
    /\ FlGoto(n, "monRenew", "monSelect")
    /\ flFaults' = flFaults + 1
    /\ \/ flFile' = flFile
       \/ flFile.exists /\ flFile' = [flFile EXCEPT !.data = <<>>]
    /\ UNCHANGED <<flNow, flCtxDone, exceptFL>>

\* The interrupt signal of signal.NotifyContext cancels the node's context.
FlInterrupt(n) ==
    /\ ~flCtxDone[n]
    /\ flPc[n] \notin {"failed", "exited"}
    /\ flCtxDone' = [flCtxDone EXCEPT ![n] = TRUE]
    /\ UNCHANGED <<flPc, flFile, flNow, flFaults, exceptFL>>

FlAdvanceTime ==
    /\ flNow < FlMaxTime
    /\ flNow' = flNow + 1
    /\ UNCHANGED <<flPc, flFile, flCtxDone, flFaults, exceptFL>>

\* Every monitoring node has made its check of the current second: none is
\* in the middle of a check, and for none would a check find anything to do
\* (the tick of time.NewTicker(1 * time.Second) on line 148 has been served).
ChecksDone ==
    \A n \in Nodes :
        /\ flPc[n] \notin {"monShouldRenew", "monRenew"}
        /\ flPc[n] = "monSelect"
              => (IsCurrentLeader(n, flFile, flNow) /\ ~ShouldRenewLease(flFile, flNow))

\* A second passes with every check fired on time.
FlAdvanceTimeOnTime ==
    /\ ChecksDone
    /\ FlAdvanceTime

\* The elector with its checks on time and a file system that never fails;
\* nodes may be interrupted.
FLOnTimeNext ==
    \/ \E n \in Nodes : FlAcquireLease(n)
    \/ \E n \in Nodes : FlAcquireTick(n)
    \/ \E n \in Nodes : FlAcquireDone(n)
    \/ \E n \in Nodes : FlAcquireCheckExpired(n)
    \/ \E n \in Nodes : FlAcquireOpen(n)
    \/ \E n \in Nodes : FlAcquireWriteOk(n)
    \/ \E n \in Nodes : FlMonitorDone(n)
    \/ \E n \in Nodes : FlMonitorCancelRemove(n)
    \/ \E n \in Nodes : FlMonitorTick(n)
    \/ \E n \in Nodes : FlMonitorReturn(n)
    \/ \E n \in Nodes : FlShouldRenew(n)
    \/ \E n \in Nodes : FlRenewOk(n)
    \/ \E n \in Nodes : FlInterrupt(n)
    \/ FlAdvanceTimeOnTime

FLNext ==
    \/ \E n \in Nodes : FlAcquireLease(n)
    \/ \E n \in Nodes : FlAcquireTick(n)
    \/ \E n \in Nodes : FlAcquireDone(n)
    \/ \E n \in Nodes : FlAcquireCheckExpired(n)
    \/ \E n \in Nodes : FlAcquireReadErr(n)
    \/ \E n \in Nodes : FlAcquireOpen(n)
    \/ \E n \in Nodes : FlAcquireWriteOk(n)
    \/ \E n \in Nodes : FlAcquireWriteErr(n)
    \/ \E n \in Nodes : FlAcquireCleanup(n)
    \/ \E n \in Nodes : FlMonitorDone(n)
    \/ \E n \in Nodes : FlMonitorCancelRemove(n)
    \/ \E n \in Nodes : FlMonitorTick(n)
    \/ \E n \in Nodes : FlMonitorReadErr(n)
    \/ \E n \in Nodes : FlOnShutdown(n)
    \/ \E n \in Nodes : FlMonitorLostRemove(n)
    \/ \E n \in Nodes : FlMonitorReturn(n)
    \/ \E n \in Nodes : FlShouldRenew(n)
    \/ \E n \in Nodes : FlRenewOk(n)
    \/ \E n \in Nodes : FlRenewErr(n)
    \/ \E n \in Nodes : FlInterrupt(n)
    \/ FlAdvanceTime

\* The file-based elector before any node starts: Part III under the other
\* specifications.
FLIdle == FLInit

(***************************************************************************)
(* Part IV.  NewLeaderElector of both packages, applied to a configuration *)
(* and followed by the start of the elector.  Durations are in seconds.    *)
(***************************************************************************)
MaxDuration == 2      \* durations supplied range over -1..MaxDuration

DefaultLeaseDuration == 10
DefaultRenewDeadline == 8
DefaultRetryPeriod == 2

\* const leaseDuration and retryPeriod of file/lease.go, in seconds.
FileLeaseDuration == 10
FileRetryPeriod == 2

Durations == (0 - 1)..MaxDuration
Identities == {<<>>, <<"A">>}

\* LeaseConfig values a caller can supply (main.go leaves RenewDeadline 0).
LeaseConfigs ==
    [Identity : Identities, LeaseDuration : Durations,
     RenewDeadline : Durations, RetryPeriod : Durations]

\* examples/.../lease.go NewLeaderElector: zero durations take the defaults;
\* nothing is rejected and an elector is always returned.
NewLeaderElectorConfig(config) ==
    [err |-> FALSE,
     config |-> [Identity |-> config.Identity,
                 LeaseDuration |-> IF config.LeaseDuration = 0
                                   THEN DefaultLeaseDuration ELSE config.LeaseDuration,
                 RenewDeadline |-> IF config.RenewDeadline = 0
                                   THEN DefaultRenewDeadline ELSE config.RenewDeadline,
                 RetryPeriod |-> IF config.RetryPeriod = 0
                                 THEN DefaultRetryPeriod ELSE config.RetryPeriod]]

\* file/lease.go NewLeaderElector(nodeID): only the empty nodeID is rejected;
\* the durations are the package constants (the package has no renew
\* deadline: the lease duration stands in for it).
FileNewLeaderElector(nodeID) ==
    IF nodeID = <<>> THEN [err |-> TRUE, config |-> Nil]
    ELSE [err |-> FALSE,
          config |-> [Identity |-> nodeID,
                      LeaseDuration |-> FileLeaseDuration,
                      RenewDeadline |-> FileLeaseDuration,
                      RetryPeriod |-> FileRetryPeriod]]

CTInit ==
    /\ ctKind \in {"run", "file"}
    /\ ctConfig \in LeaseConfigs
    /\ ctKind = "file" =>
           /\ ctConfig.LeaseDuration = 0
           /\ ctConfig.RenewDeadline = 0
           /\ ctConfig.RetryPeriod = 0
    /\ ctElector = Nil
    /\ ctState = "configured"

\* The call of NewLeaderElector.
Construct ==
    /\ ctState = "configured"
    /\ LET r == IF ctKind = "run" THEN NewLeaderElectorConfig(ctConfig)
                ELSE FileNewLeaderElector(ctConfig.Identity)
       IN  /\ ctElector' = r.config
           /\ ctState' = IF r.err THEN "failed" ELSE "constructed"
    /\ UNCHANGED <<ctKind, ctConfig, exceptCT>>

\* Run up to its select (time.NewTicker panics on a non-positive period), or
\* AcquireLease up to its select.
Start ==
    /\ ctState = "constructed"
    /\ ctState' = IF ctKind = "run" /\ ctElector.RetryPeriod <= 0
                  THEN "panicked" ELSE "running"
    /\ UNCHANGED <<ctKind, ctConfig, ctElector, exceptCT>>

\* A tick of the running elector.
Tick ==
    /\ ctState = "running"
    /\ ctState' = "ticked"
    /\ UNCHANGED <<ctKind, ctConfig, ctElector, exceptCT>>

CTNext ==
    \/ Construct
    \/ Start
    \/ Tick

\* No configuration under construction: Part IV under the other specifications.
CTIdle ==
    /\ ctKind = "run"
    /\ ctConfig = [Identity |-> <<"A">>, LeaseDuration |-> 0,
                   RenewDeadline |-> 0, RetryPeriod |-> 0]
    /\ ctElector = Nil
    /\ ctState = "configured"

(***************************************************************************)
(* Part V.  The order retry client: one ProcessOrder call.                 *)
(***************************************************************************)
MaxAttempts == 4      \* maxAttempts ranges over 1..MaxAttempts
MaxInterval == 2      \* initialInterval and maxInterval range over 1..MaxInterval
MaxMultiplier == 2    \* multiplier ranges over 1..MaxMultiplier
MaxInt64 == 7         \* math.MaxInt64 on the scale of the model: a Duration is an int64

ErrMaxAttemptsExceeded == "ErrMaxAttemptsExceeded"

\* OrderResponse{} and the response of the k-th call to the service.
ZeroResponse == <<"OrderResponse", 0>>
Response(k) == <<"OrderResponse", k>>

RECURSIVE Pow(_, _)
Pow(b, n) == IF n = 0 THEN 1 ELSE b * Pow(b, n - 1)

\* float64(r.initialInterval) * math.Pow(r.multiplier, float64(attempt)),
\* for whole-number multipliers (line 108).
FloatDelay(attempt) == rtCfg.initialInterval * Pow(rtCfg.multiplier, attempt)

\* time.Duration(delay): a float64 converted to an int64.  A value the int64
\* cannot represent converts to an implementation-dependent value: the
\* smallest int64 on amd64, the largest on arm64.
ToDuration(delay) ==
    IF delay <= MaxInt64 THEN {delay} ELSE {-MaxInt64 - 1, MaxInt64}

\* The values backoffDelay(attempt) can return (lines 107-113).
BackoffDelay(attempt) ==
    {IF d > rtCfg.maxInterval THEN rtCfg.maxInterval ELSE d :
        d \in ToDuration(FloatDelay(attempt))}

\* New: every parameter must be greater than 0.
RTInit ==
    /\ rtCfg \in [maxAttempts : 1..MaxAttempts,
                  initialInterval : 1..MaxInterval,
                  maxInterval : 1..MaxInterval,
                  multiplier : 1..MaxMultiplier]
    /\ rtPc = "idle"
    /\ rtI = 0
    /\ rtOutcomes = <<>>
    /\ rtWaits = <<>>
    /\ rtResult = [resp |-> ZeroResponse, err |-> Nil]
    /\ rtCtxDone = FALSE

\* A loop test that allows one attempt too many.
MoreAttemptsOffByOne(i) == i < rtCfg.maxAttempts

\* Line 98 (and the loop condition, line 85): another attempt follows.
MoreAttempts(i) == i < rtCfg.maxAttempts - 1

\* ProcessOrder is called: i := 0 (maxAttempts > 0, so the loop is entered).
RtProcessOrder ==
    /\ rtPc = "idle"
    /\ rtPc' = "attempt"
    /\ rtI' = 0
    /\ UNCHANGED <<rtCfg, rtOutcomes, rtWaits, rtResult, rtCtxDone, exceptRT>>

\* r.service.ProcessOrder returns a response and no error (lines 90-95).
RtAttemptOk ==
    /\ rtPc = "attempt"
    /\ rtOutcomes' = Append(rtOutcomes, "ok")
    /\ rtResult' = [resp |-> Response(Len(rtOutcomes) + 1), err |-> Nil]
    /\ rtPc' = "returned"
    /\ UNCHANGED <<rtCfg, rtI, rtWaits, rtCtxDone, exceptRT>>

\* r.service.ProcessOrder returns an error: wait when another attempt
\* follows, else leave the loop and return ErrMaxAttemptsExceeded.
RtAttemptErr ==
    /\ rtPc = "attempt"
    /\ rtOutcomes' = Append(rtOutcomes, "err")
    /\ IF MoreAttempts(rtI)
       THEN /\ rtPc' = "wait"
            /\ UNCHANGED <<rtI, rtResult>>
       ELSE /\ rtPc' = "returned"
            /\ rtI' = rtI + 1
            /\ rtResult' = [resp |-> ZeroResponse, err |-> ErrMaxAttemptsExceeded]
    /\ UNCHANGED <<rtCfg, rtWaits, rtCtxDone, exceptRT>>

\* <-r.clock.After(r.backoffDelay(i)) fires; i++.
RtBackoff ==
    /\ rtPc = "wait"
    /\ \E d \in BackoffDelay(rtI) : rtWaits' = Append(rtWaits, d)
    /\ rtI' = rtI + 1
    /\ rtPc' = "attempt"
    /\ UNCHANGED <<rtCfg, rtOutcomes, rtResult, rtCtxDone, exceptRT>>

\* The caller cancels the context it passed to ProcessOrder.
RtCancel ==
    /\ ~rtCtxDone
    /\ rtPc # "returned"
    /\ rtCtxDone' = TRUE
    /\ UNCHANGED <<rtCfg, rtPc, rtI, rtOutcomes, rtWaits, rtResult, exceptRT>>

RTNext ==
    \/ RtProcessOrder
    \/ RtAttemptOk
    \/ RtAttemptErr
    \/ RtBackoff
    \/ RtCancel

\* No call in progress: Part V under the other specifications.
RTIdle ==
    /\ rtCfg = [maxAttempts |-> 1, initialInterval |-> 1,
                maxInterval |-> 1, multiplier |-> 1]
    /\ rtPc = "idle"
    /\ rtI = 0
    /\ rtOutcomes = <<>>
    /\ rtWaits = <<>>
    /\ rtResult = [resp |-> ZeroResponse, err |-> Nil]
    /\ rtCtxDone = FALSE

(***************************************************************************)
(* Part VI.  The user cache: New and GetUser, called by concurrent         *)
(* goroutines.  GetUser holds the lock only around its read of the map and *)
(* around its write; the clock is read and the service is called outside.  *)
(***************************************************************************)
NumCallers == 2    \* goroutines calling GetUser
NumIds == 2        \* user ids asked for
NumUsers == 2      \* distinct service.User values the service returns
CaMaxTime == 2     \* the clock runs from 0 to CaMaxTime
MaxTtl == 1        \* ttl ranges over 1..MaxTtl

Callers == 1..NumCallers
Ids == 1..NumIds
Users == 1..NumUsers
ZeroUser == 0      \* service.User{}

\* cu, ok := c.entries[id]: the zero entry with ok false when id is absent.
NoEntry == [ok |-> FALSE, Value |-> ZeroUser, ExpiresAt |-> 0]
Entry(user, expiresAt) == [ok |-> TRUE, Value |-> user, ExpiresAt |-> expiresAt]

\* entry.IsExpired: clock.Now().After(e.ExpiresAt).
IsExpiredAtExpiry(e) == caClock >= e.ExpiresAt
IsExpired(e) == caClock > e.ExpiresAt

\* entry{Value: user, ExpiresAt: c.clock.Now().Add(c.ttl)}.
NewEntryNoTtl(user) == Entry(user, caClock)
NewEntry(user) == Entry(user, caClock + caTtl)

ErrGetUser == "failed to get user"

\* A goroutine that is not inside GetUser, with what its last call returned.
CaReturned(id, user, err, invoked) ==
    [pc |-> "idle", id |-> id, cu |-> NoEntry, user |-> user, err |-> err,
     invoked |-> invoked]

NoFetch == [ok |-> FALSE, id |-> 0, Value |-> ZeroUser, ExpiresAt |-> 0]

\* New: ttl must be greater than 0; the map starts empty.
CAInit ==
    /\ caTtl \in 1..MaxTtl
    /\ caEntries = [id \in Ids |-> NoEntry]
    /\ caClock = 0
    /\ caCalls = [c \in Callers |-> CaReturned(0, ZeroUser, Nil, FALSE)]
    /\ caFetched = [c \in Callers |-> NoFetch]

\* GetUser, the read of the map under the read lock.
CaGetUser(c, id) ==
    /\ caCalls[c].pc = "idle"
    /\ caCalls' = [caCalls EXCEPT ![c] =
                      [pc |-> "check", id |-> id, cu |-> caEntries[id],
                       user |-> ZeroUser, err |-> Nil, invoked |-> FALSE]]
    /\ UNCHANGED <<caTtl, caEntries, caClock, caFetched, exceptCA>>

\* ok && !cu.IsExpired(c.clock): return cu.Value, nil.
CaHit(c) ==
    /\ caCalls[c].pc = "check"
    /\ caCalls[c].cu.ok /\ ~IsExpired(caCalls[c].cu)
    /\ caCalls' = [caCalls EXCEPT ![c] =
                      CaReturned(caCalls[c].id, caCalls[c].cu.Value, Nil, FALSE)]
    /\ UNCHANGED <<caTtl, caEntries, caClock, caFetched, exceptCA>>

\* Cache miss or expired: c.service.GetUser returns a user.
CaFetchOk(c, user) ==
    /\ caCalls[c].pc = "check"
    /\ ~(caCalls[c].cu.ok /\ ~IsExpired(caCalls[c].cu))
    /\ caCalls' = [caCalls EXCEPT ![c] =
                      [pc |-> "store", id |-> caCalls[c].id, cu |-> NoEntry,
                       user |-> user, err |-> Nil, invoked |-> TRUE]]
    /\ UNCHANGED <<caTtl, caEntries, caClock, caFetched, exceptCA>>

\* A GetUser that caches the zero User when the service fails.
CaFetchErrCached(c) ==
    /\ caCalls[c].pc = "check"
    /\ ~(caCalls[c].cu.ok /\ ~IsExpired(caCalls[c].cu))
    /\ caEntries' = [caEntries EXCEPT ![caCalls[c].id] = NewEntry(ZeroUser)]
    /\ caCalls' = [caCalls EXCEPT ![c] =
                      CaReturned(caCalls[c].id, ZeroUser, ErrGetUser, TRUE)]
    /\ UNCHANGED <<caTtl, caClock, caFetched, exceptCA>>

\* Cache miss or expired: c.service.GetUser fails; the zero User and the
\* wrapped error are returned.
CaFetchErr(c) ==
    /\ caCalls[c].pc = "check"
    /\ ~(caCalls[c].cu.ok /\ ~IsExpired(caCalls[c].cu))
    /\ caCalls' = [caCalls EXCEPT ![c] =
                      CaReturned(caCalls[c].id, ZeroUser, ErrGetUser, TRUE)]
    /\ UNCHANGED <<caTtl, caEntries, caClock, caFetched, exceptCA>>

\* The write of the entry under the lock, and return user, nil.
CaStore(c) ==
    /\ caCalls[c].pc = "store"
    /\ caEntries' = [caEntries EXCEPT ![caCalls[c].id] = NewEntry(caCalls[c].user)]
    /\ caFetched' = [caFetched EXCEPT ![c] =
                        [ok |-> TRUE, id |-> caCalls[c].id,
                         Value |-> caCalls[c].user,
                         ExpiresAt |-> NewEntry(caCalls[c].user).ExpiresAt]]
    /\ caCalls' = [caCalls EXCEPT ![c] =
                      CaReturned(caCalls[c].id, caCalls[c].user, Nil, TRUE)]
    /\ UNCHANGED <<caTtl, caClock, exceptCA>>

\* The clock moves on.
CaAdvanceClock ==
    /\ caClock < CaMaxTime
    /\ caClock' = caClock + 1
    /\ UNCHANGED <<caTtl, caEntries, caCalls, caFetched, exceptCA>>

CANext ==
    \/ \E c \in Callers, id \in Ids : CaGetUser(c, id)
    \/ \E c \in Callers : CaHit(c)
    \/ \E c \in Callers, user \in Users : CaFetchOk(c, user)
    \/ \E c \in Callers : CaFetchErr(c)
    \/ \E c \in Callers : CaStore(c)
    \/ CaAdvanceClock

\* No cache in use: Part VI under the other specifications.
CAIdle ==
    /\ caTtl = 1
    /\ caEntries = [id \in Ids |-> NoEntry]
    /\ caClock = 0
    /\ caCalls = [c \in Callers |-> CaReturned(0, ZeroUser, Nil, FALSE)]
    /\ caFetched = [c \in Callers |-> NoFetch]

(***************************************************************************)
(* Part VII.  The elector's mutex (LeaderElector.mu, a sync.RWMutex): the  *)
(* Run loop with its Lock/Unlock and RLock/RUnlock calls made explicit,    *)
(* IsLeader() called from other goroutines and from inside the callbacks.  *)
(***************************************************************************)
NumThreads == 2    \* goroutines other than Run's that call IsLeader()

Threads == 1..NumThreads
Loop == 0          \* the goroutine that runs Run

\* The positions of the loop at which it performs a file operation, and
\* those at which it is inside a callback.
StorePositions == {"renew", "acquire", "remove"}
CallbackPositions == {"onStarted", "onStartedRest", "onStopped", "onStoppedRest"}

MXInit ==
    /\ mxLoop = "select"
    /\ mxRet = "select"
    /\ mxRole = FALSE
    /\ mxWriter = FALSE
    /\ mxPending = FALSE
    /\ mxReaders = {}
    /\ mxThreads = [t \in Threads |-> "idle"]
    /\ mxCtxDone = FALSE

\* RLock proceeds unless a writer holds the mutex or waits for it.
CanRLock == ~mxWriter /\ ~mxPending

\* Unlock: the write lock is released and the readers that were blocked by
\* it are let in.
Unlock ==
    /\ mxWriter' = FALSE
    /\ mxThreads' = [t \in Threads |-> IF mxThreads[t] = "wait" THEN "read"
                                       ELSE mxThreads[t]]
    /\ mxReaders' = mxReaders \cup {t \in Threads : mxThreads[t] = "wait"}

\* ---- IsLeader() called by another goroutine (lines 85-89)
MxCall(t) ==
    /\ mxThreads[t] = "idle"
    /\ mxThreads' = [mxThreads EXCEPT ![t] = "wait"]
    /\ UNCHANGED <<mxLoop, mxRet, mxRole, mxWriter, mxPending, mxReaders,
                   mxCtxDone, exceptMX>>

\* le.mu.RLock()
MxRLock(t) ==
    /\ mxThreads[t] = "wait"
    /\ CanRLock
    /\ mxThreads' = [mxThreads EXCEPT ![t] = "read"]
    /\ mxReaders' = mxReaders \cup {t}
    /\ UNCHANGED <<mxLoop, mxRet, mxRole, mxWriter, mxPending, mxCtxDone, exceptMX>>

\* return le.isLeader, with the deferred RUnlock
MxReturn(t) ==
    /\ mxThreads[t] = "read"
    /\ mxThreads' = [mxThreads EXCEPT ![t] = "idle"]
    /\ mxReaders' = mxReaders \ {t}
    /\ UNCHANGED <<mxLoop, mxRet, mxRole, mxWriter, mxPending, mxCtxDone, exceptMX>>

\* ---- Run (lines 67-83)
MxGoto(at, to) == mxLoop = at /\ mxLoop' = to

\* case <-ticker.C: tryAcquireOrRenewLease calls IsLeader()
MxTick ==
    /\ MxGoto("select", "tickRLock")
    /\ UNCHANGED <<mxRet, mxRole, mxWriter, mxPending, mxReaders, mxThreads,
                   mxCtxDone, exceptMX>>

\* case <-ctx.Done(): releaseLease calls IsLeader()
MxDone ==
    /\ mxCtxDone
    /\ MxGoto("select", "relRLock")
    /\ UNCHANGED <<mxRet, mxRole, mxWriter, mxPending, mxReaders, mxThreads,
                   mxCtxDone, exceptMX>>

\* le.mu.RLock() in an IsLeader() called by the loop or by a callback
MxLoopRLock ==
    /\ mxLoop \in {"tickRLock", "relRLock", "cbRLock"}
    /\ CanRLock
    /\ mxLoop' = CASE mxLoop = "tickRLock" -> "tickRead"
                   [] mxLoop = "relRLock" -> "relRead"
                   [] mxLoop = "cbRLock" -> "cbRead"
    /\ mxReaders' = mxReaders \cup {Loop}
    /\ UNCHANGED <<mxRet, mxRole, mxWriter, mxPending, mxThreads, mxCtxDone, exceptMX>>

\* IsLeader() returns to tryAcquireOrRenewLease (line 98)
MxTickRead ==
    /\ MxGoto("tickRead", IF mxRole THEN "renew" ELSE "acquire")
    /\ mxReaders' = mxReaders \ {Loop}
    /\ UNCHANGED <<mxRet, mxRole, mxWriter, mxPending, mxThreads, mxCtxDone, exceptMX>>

\* IsLeader() returns to releaseLease (line 162)
MxRelRead ==
    /\ MxGoto("relRead", IF mxRole THEN "downLock" ELSE "remove")
    /\ mxRet' = "remove"
    /\ mxReaders' = mxReaders \ {Loop}
    /\ UNCHANGED <<mxRole, mxWriter, mxPending, mxThreads, mxCtxDone, exceptMX>>

\* renewLease returns true (line 99)
MxRenewOk ==
    /\ MxGoto("renew", "select")
    /\ UNCHANGED <<mxRet, mxRole, mxWriter, mxPending, mxReaders, mxThreads,
                   mxCtxDone, exceptMX>>

\* renewLease returns false: stepDown, then tryAcquireLease (lines 102-106)
MxRenewFail ==
    /\ MxGoto("renew", "downLock")
    /\ mxRet' = "acquire"
    /\ UNCHANGED <<mxRole, mxWriter, mxPending, mxReaders, mxThreads,
                   mxCtxDone, exceptMX>>

\* tryAcquireLease returns true: becomeLeader (lines 106-108)
MxAcquireOk ==
    /\ MxGoto("acquire", "upLock")
    /\ UNCHANGED <<mxRet, mxRole, mxWriter, mxPending, mxReaders, mxThreads,
                   mxCtxDone, exceptMX>>

MxAcquireFail ==
    /\ MxGoto("acquire", "select")
    /\ UNCHANGED <<mxRet, mxRole, mxWriter, mxPending, mxReaders, mxThreads,
                   mxCtxDone, exceptMX>>

\* le.mu.Lock() is called: from now on new readers wait.
MxLockCall ==
    /\ mxLoop \in {"downLock", "upLock"}
    /\ ~mxPending
    /\ mxPending' = TRUE
    /\ UNCHANGED <<mxLoop, mxRet, mxRole, mxWriter, mxReaders, mxThreads,
                   mxCtxDone, exceptMX>>

\* le.mu.Lock() returns once the readers have left.
MxLockAcquire ==
    /\ mxLoop \in {"downLock", "upLock"}
    /\ mxPending
    /\ mxReaders = {}
    /\ mxPending' = FALSE
    /\ mxWriter' = TRUE
    /\ mxLoop' = IF mxLoop = "downLock" THEN "downWrite" ELSE "upWrite"
    /\ UNCHANGED <<mxRet, mxRole, mxReaders, mxThreads, mxCtxDone, exceptMX>>

\* A becomeLeader that defers its Unlock to the end of the function.
MxUpWriteDeferred ==
    /\ MxGoto("upWrite", "onStarted")
    /\ mxRole' = TRUE
    /\ UNCHANGED <<mxRet, mxWriter, mxPending, mxReaders, mxThreads,
                   mxCtxDone, exceptMX>>

\* becomeLeader: le.isLeader = true; le.mu.Unlock() (lines 170-171)
MxUpWrite ==
    /\ MxGoto("upWrite", "onStarted")
    /\ mxRole' = TRUE
    /\ Unlock
    /\ UNCHANGED <<mxRet, mxPending, mxCtxDone, exceptMX>>

\* stepDown: wasLeader := le.isLeader; le.isLeader = false; le.mu.Unlock()
\* (lines 180-182), then the callback if wasLeader.
MxDownWrite ==
    /\ MxGoto("downWrite", IF mxRole THEN "onStopped" ELSE mxRet)
    /\ mxRole' = FALSE
    /\ Unlock
    /\ UNCHANGED <<mxRet, mxPending, mxCtxDone, exceptMX>>

\* The callback calls IsLeader().
MxCallbackIsLeader ==
    /\ mxLoop \in {"onStarted", "onStopped"}
    /\ mxRet' = IF mxLoop = "onStarted" THEN "onStartedRest"
                ELSE IF mxRet = "acquire" THEN "onStoppedRestAcquire"
                ELSE "onStoppedRestRemove"
    /\ mxLoop' = "cbRLock"
    /\ UNCHANGED <<mxRole, mxWriter, mxPending, mxReaders, mxThreads,
                   mxCtxDone, exceptMX>>

\* IsLeader() returns to the callback.
MxCbRead ==
    /\ mxLoop = "cbRead"
    /\ mxLoop' = IF mxRet = "onStartedRest" THEN "onStartedRest" ELSE "onStoppedRest"
    /\ mxRet' = CASE mxRet = "onStoppedRestAcquire" -> "acquire"
                  [] mxRet = "onStoppedRestRemove" -> "remove"
                  [] OTHER -> "select"
    /\ mxReaders' = mxReaders \ {Loop}
    /\ UNCHANGED <<mxRole, mxWriter, mxPending, mxThreads, mxCtxDone, exceptMX>>

\* The callback returns.
MxCallbackReturn ==
    /\ mxLoop \in CallbackPositions
    /\ mxLoop' = IF mxLoop \in {"onStarted", "onStartedRest"} THEN "select" ELSE mxRet
    /\ UNCHANGED <<mxRet, mxRole, mxWriter, mxPending, mxReaders, mxThreads,
                   mxCtxDone, exceptMX>>

\* os.Remove(le.lockFile), and Run returns (lines 165, 77)
MxRemove ==
    /\ MxGoto("remove", "returned")
    /\ UNCHANGED <<mxRet, mxRole, mxWriter, mxPending, mxReaders, mxThreads,
                   mxCtxDone, exceptMX>>

\* Stop(), or the caller cancels the context.
MxStop ==
    /\ ~mxCtxDone
    /\ mxCtxDone' = TRUE
    /\ UNCHANGED <<mxLoop, mxRet, mxRole, mxWriter, mxPending, mxReaders,
                   mxThreads, exceptMX>>

\* The steps of the Run goroutine.
MxLoopStep ==
    \/ MxTick
    \/ MxDone
    \/ MxLoopRLock
    \/ MxTickRead
    \/ MxRelRead
    \/ MxRenewOk
    \/ MxRenewFail
    \/ MxAcquireOk
    \/ MxAcquireFail
    \/ MxLockCall
    \/ MxLockAcquire
    \/ MxUpWrite
    \/ MxDownWrite
    \/ MxCallbackIsLeader
    \/ MxCbRead
    \/ MxCallbackReturn
    \/ MxRemove

\* The steps of a goroutine inside IsLeader().
MxThreadStep(t) ==
    \/ MxRLock(t)
    \/ MxReturn(t)

MXNext ==
    \/ MxLoopStep
    \/ \E t \in Threads : MxThreadStep(t)
    \/ \E t \in Threads : MxCall(t)
    \/ MxStop

\* No goroutine uses the mutex: Part VII under the other specifications.
MXIdle ==
    /\ mxLoop = "select"
    /\ mxRet = "select"
    /\ mxRole = FALSE
    /\ mxWriter = FALSE
    /\ mxPending = FALSE
    /\ mxReaders = {}
    /\ mxThreads = [t \in Threads |-> "idle"]
    /\ mxCtxDone = FALSE

(***************************************************************************)
(* Specifications.                                                         *)
(***************************************************************************)
Init == LEInit /\ CBIdle /\ FLIdle /\ CTIdle /\ RTIdle /\ CAIdle /\ MXIdle
Next == LENext
Spec == Init /\ [][Next]_vars

TrioSpec == Init /\ [][TrioNext]_vars

\* Every goroutine that can take a step eventually takes one, and the clock
\* advances (up to the bound of the model).
FailoverSpec ==
    /\ Init
    /\ [][FailoverNext]_vars
    /\ \A e \in Competitors : WF_vars(TickStep(e))
    /\ WF_vars(AdvanceTime)

\* Go's select chooses among its ready cases at random, so a loop that
\* reaches the select again and again with ctx.Done() ready takes that
\* case eventually (strong fairness); no goroutine is starved.
HandoverSpec ==
    /\ Init
    /\ [][HandoverNext]_vars
    /\ \A e \in Competitors : WF_vars(TickStep(e) \/ ReleaseStep(e))
    /\ \A e \in Competitors : SF_vars(SelectDone(e))

\* Spec with its scheduling: the Run goroutine of every competitor keeps
\* taking steps (file operations and callbacks return), and a select that is
\* reached again and again with ctx.Done() ready takes that case eventually.
StopSpec ==
    /\ Init
    /\ [][Next]_vars
    /\ \A e \in Competitors :
          WF_vars(TickStep(e) \/ RenewFailedStep(e) \/ ReleaseStep(e) \/ FaultStep(e))
    /\ \A e \in Competitors : SF_vars(SelectDone(e))

CBSpecInit == CBInit /\ LEInit /\ FLIdle /\ CTIdle /\ RTIdle /\ CAIdle /\ MXIdle
CBSpec == CBSpecInit /\ [][CBNext]_vars
CBFairSpec == CBSpec /\ WF_vars(ProcessPaymentOk) /\ WF_vars(CBAdvanceClock)

FLSpecInit == FLInit /\ LEInit /\ CBIdle /\ CTIdle /\ RTIdle /\ CAIdle /\ MXIdle
FLSpec == FLSpecInit /\ [][FLNext]_vars

\* What the nodes may find at the lock file's path when they start: nothing,
\* or a file left behind with any of these contents (holder part, ":",
\* timestamp part, or no colon at all).
HolderParts == {<<>>, <<"1">>, <<"2">>, <<"A">>}
StampParts == {<<>>, <<"0">>, <<"1">>, <<"2">>, <<"0", "3">>, <<"-", "1">>,
               <<"+", "1">>, <<"x">>, <<" ", "1">>, <<"1", "\n">>, <<"1", ":", "2">>}
LockFileContents ==
    {h \o <<":">> \o t : h \in HolderParts, t \in StampParts} \cup {<<>>, <<"1">>}

\* FLSpec started at any time of the clock with any such file in place.
FLPredInit ==
    /\ flPc = [n \in Nodes |-> "new"]
    /\ flFile \in {NoFile} \cup
                  {[exists |-> TRUE, inode |-> 0, data |-> d] : d \in LockFileContents}
    /\ flNow \in 0..FlMaxTime
    /\ flCtxDone = [n \in Nodes |-> FALSE]
    /\ flFaults = 0
FLPredSpecInit == FLPredInit /\ LEInit /\ CBIdle /\ CTIdle /\ RTIdle /\ CAIdle /\ MXIdle
FLPredSpec == FLPredSpecInit /\ [][FLNext]_vars

FLOnTimeSpec == FLSpecInit /\ [][FLOnTimeNext]_vars

CTSpecInit == CTInit /\ LEInit /\ CBIdle /\ FLIdle /\ RTIdle /\ CAIdle /\ MXIdle
CTSpec == CTSpecInit /\ [][CTNext]_vars

RTSpecInit == RTInit /\ LEInit /\ CBIdle /\ FLIdle /\ CTIdle /\ CAIdle /\ MXIdle
RTSpec == RTSpecInit /\ [][RTNext]_vars

CASpecInit == CAInit /\ LEInit /\ CBIdle /\ FLIdle /\ CTIdle /\ RTIdle /\ MXIdle
CASpec == CASpecInit /\ [][CANext]_vars

MXSpecInit == MXInit /\ LEInit /\ CBIdle /\ FLIdle /\ CTIdle /\ RTIdle /\ CAIdle
MXSpec == MXSpecInit /\ [][MXNext]_vars
\* Every goroutine that can take a step eventually takes one.
MXFairSpec ==
    /\ MXSpec
    /\ WF_vars(MxLoopStep)
    /\ \A t \in Threads : WF_vars(MxThreadStep(t))

(***************************************************************************)
(* Claims.                                                                 *)
(***************************************************************************)
Leaders == {e \in Electors : IsLeader(e)}

\* The positions at which no tick and no release is in progress.
Quiescent == {"init", "select", "returned"}

\* The Unix timestamp of a record written by Sprintf (one-character identity).
RecordTimestamp(data) == Atoi(SubSeq(data, 3, Len(data)))

RecordOlderThanLease ==
    /\ lockFile.exists
    /\ lockFile.data # <<>>
    /\ now - RecordTimestamp(lockFile.data) > LeaseDuration

Sum(f) == LET RECURSIVE Add(_)
              Add(S) == IF S = {} THEN 0
                        ELSE LET x == CHOOSE x \in S : TRUE
                             IN  f[x] + Add(S \ {x})
          IN  Add(DOMAIN f)

\* C1 (TrioSpec): mutual exclusion of the Run/IsLeader elector. While no more
\* than LeaseDuration has passed since the electors were started (so that no
\* elector can have stalled past LeaseDuration), at most one elector reports
\* IsLeader() == true.
MutualExclusionRun ==
    now <= LeaseDuration => Cardinality(Leaders) <= 1

\* C2 (FailoverSpec): failover after a leader halts. Once the leader's loop
\* has halted with its record left in the slot and the record is older than
\* LeaseDuration, some competitor that is still running eventually becomes
\* leader.
FailoverAfterHalt ==
    (\E e \in Competitors : halted[e] /\ IsLeader(e) /\ RecordOlderThanLease
        /\ \E f \in Competitors : f # e /\ pc[f] # "init")
    ~> (\E f \in Competitors : ~halted[f] /\ IsLeader(f))

FollowerStopKeepsRecord ==
    [][\A e \in Electors :
          (pc[e] = "relRemove" /\ pc'[e] = "returned" /\ relStopped[e] = 0
             /\ lockFile.exists /\ lockFile.data # <<>>)
              => lockFile' = lockFile]_vars

\* C7 (Spec): OnStartedLeading is invoked before the elector reports
\* leadership. Whenever IsLeader() is true the OnStartedLeading callback of
\* that acquisition has been invoked.
StartedBeforeReported ==
    \A e \in Electors : IsLeader(e) => started[e] > stopped[e]

\* C8 (HandoverSpec): graceful handover. Eventually exactly one of the two
\* electors is Leader; once Stop() has been called on it the other eventually
\* becomes Leader; and whenever the other is Leader after that Stop(), the
\* totals are 2 OnStartedLeading calls and 1 OnStoppedLeading call.
GracefulHandover ==
    /\ <>(Cardinality(Leaders) = 1)
    /\ \A e \in Competitors :
          ctxDone[e] ~> (\E f \in Competitors : f # e /\ IsLeader(f))
    /\ [](\A e, f \in Competitors :
             (ctxDone[e] /\ f # e /\ IsLeader(f))
                 => (Sum(started) = 2 /\ Sum(stopped) = 1))

\* C9 (Spec): idempotent Stop. A Stop() call changes nothing but the
\* context, which it cancels only if Run has stored cancelFunc, and leaves
\* an already cancelled context as it is; and over the elector's lifetime
\* the cancellation path fires OnStoppedLeading at most once.
IdempotentStop ==
    [][/\ stopCalls' # stopCalls =>
            /\ UNCHANGED <<pc, isLeader, cancelFunc, lockFile, started, stopped,
                           relStopped>>
            /\ \A e \in Electors :
                  ctxDone'[e] # ctxDone[e] =>
                      e = Watched /\ cancelFunc[e] /\ ctxDone'[e]
       /\ \A e \in Electors : relStopped'[e] <= 1]_vars

\* C9 witness: Stop() was called twice on an elector whose release fired
\* OnStoppedLeading and whose Run has returned.
IdempotentStopWitness ==
    stopCalls >= 2 /\ relStopped[Watched] = 1 /\ pc[Watched] = "returned"

\* C10 (Spec): OnStoppedLeading is never invoked by an elector that never
\* held leadership.
NeverLedNeverStopped ==
    \A e \in Electors : started[e] = 0 /\ ~IsLeader(e) => stopped[e] = 0

\* C10 witness: an elector that never led has been cancelled and has
\* returned from Run while another elector leads.
NeverLedWitness ==
    \E e, f \in Electors :
        /\ e # f
        /\ pc[e] = "returned" /\ started[e] = 0 /\ stopped[e] = 0
        /\ IsLeader(f) /\ started[f] = 1

\* C4 (CBFairSpec): automatic recovery of the circuit breaker. Once every
\* call that reaches the service succeeds, and callers keep calling while
\* the clock advances, the circuit eventually returns to Closed.
AutomaticRecovery == cbHealthy ~> (cbState = Closed)

\* The nodes in the leading phase as main.go shows it: AcquireLease returned
\* nil, MonitorLease has neither called onShutdown nor returned.
FlLeadingUntilReturn ==
    {n \in Nodes : flPc[n] \in {"monSelect", "monShouldRenew", "monRenew", "monLost",
                                "monCancelled", "monCancelReturn"}}

\* The same phase, ended on the cancellation path by the removal of the file.
FlLeading == FlLeadingUntilReturn \ {n \in Nodes : flPc[n] = "monCancelReturn"}

\* C11 (FLSpec), as stated: at most one node has returned nil from
\* AcquireLease without MonitorLease having called onShutdown or returned.
FileMutualExclusionUntilReturn == Cardinality(FlLeadingUntilReturn) <= 1

\* C11 (FLSpec), amended: at most one node is between AcquireLease returning
\* nil and MonitorLease calling onShutdown or, when cancelled, removing the
\* lock file.
FileMutualExclusion == Cardinality(FlLeading) <= 1

\* A node took over after another left: the second node leads with its own
\* record in the file while the first has exited.
FileMutualExclusionWitness ==
    \E m, n \in Nodes :
        /\ m # n
        /\ flPc[m] = "exited"
        /\ n \in FlLeading
        /\ IsCurrentLeader(n, flFile, flNow)
        /\ \E k \in Nodes \ {m, n} : flPc[k] \in {"acqSelect", "acqRead", "acqOpen"}

\* C12 (Spec): an elector whose renewLease calls have all returned true and
\* whose context is not cancelled has fired no OnStoppedLeading and at most
\* one OnStartedLeading, and is Leader from that callback on.
RenewalKeepsLeader ==
    \A e \in Electors :
        (renewals[e] # "failed" /\ ~ctxDone[e]) =>
            /\ stopped[e] = 0
            /\ started[e] <= 1
            /\ (started[e] = 1 => isLeader[e])

\* A Leader back at its select after renewals that all succeeded, the last
\* of them later than the acquisition, next to a competitor.
RenewalKeepsLeaderWitness ==
    \E e \in Electors :
        /\ renewals[e] = "ok"
        /\ ~ctxDone[e]
        /\ isLeader[e]
        /\ pc[e] = "select"
        /\ started[e] = 1
        /\ now = MaxTime
        /\ lockFile.exists /\ lockFile.data = Sprintf(Identity(e), now)
        /\ \E f \in Electors \ {e} : pc[f] = "select" /\ cancelFunc[f]

\* The configurations of section 7 that are not configuration errors.
ValidConfig(config) ==
    /\ config.Identity # <<>>
    /\ config.LeaseDuration > 0
    /\ config.RenewDeadline > 0
    /\ config.RetryPeriod > 0
    /\ config.RetryPeriod < config.LeaseDuration

\* C13 (CTSpec): an elector that was returned by NewLeaderElector and runs
\* has a non-empty identity, positive durations and retryPeriod < leaseDuration.
ConfigErrorsFatal ==
    ctState \in {"running", "ticked"} => ValidConfig(ctElector)

\* A ProcessPayment call returns in this step.
Called == cbLast' # cbLast

\* The call of this step was passed to the underlying service.
ReachedService == Called /\ cbLast'.result \in {"ok", "err"}

\* C14 (CBSpec): in Closed the failure count is below failureThreshold; a
\* call in Closed reaches the service; a failure adds one to the count and
\* opens the circuit exactly when the count reaches failureThreshold; a
\* success resets the count to 0 and leaves the circuit Closed.
OpensAtThreshold ==
    [][(Called /\ cbState = Closed) =>
          /\ cbFailures < cbCfg.failureThreshold
          /\ ReachedService
          /\ cbLast'.result = "err" =>
                 /\ cbFailures' = cbFailures + 1
                 /\ cbState' = IF cbFailures' = cbCfg.failureThreshold
                               THEN Open ELSE Closed
          /\ cbLast'.result = "ok" => (cbFailures' = 0 /\ cbState' = Closed)]_vars

\* The circuit opened from Closed on the second of two failures.
OpensAtThresholdWitness ==
    /\ cbState = Open
    /\ cbTrials = 0
    /\ cbCfg.failureThreshold = 2
    /\ cbFailures = 2
    /\ cbLast.result = "err"

\* C15 (CBSpec): a call made while the state is Open and no more than the
\* cooldown has passed since the last failure returns ErrCircuitOpen, does
\* not reach the service and leaves state, failure count and last-failure
\* time as they were.
FailFastWhenOpen ==
    [][(Called /\ cbState = Open /\ cbSinceFail <= Cooldown) =>
          /\ cbLast'.result = ErrCircuitOpen
          /\ ~ReachedService
          /\ cbState' = cbState
          /\ cbFailures' = cbFailures
          /\ cbSinceFail' = cbSinceFail]_vars

\* A call was rejected and exactly the cooldown has passed since the failure.
FailFastWhenOpenWitness ==
    /\ cbState = Open
    /\ cbLast.result = ErrCircuitOpen
    /\ cbSinceFail = Cooldown

\* C16 (CBSpec): a call that reaches the service while the breaker is
\* HalfOpen (or becomes HalfOpen in that call) and fails leaves it Open.
HalfOpenFailureReopens ==
    [][(Called /\ cbLast'.result = "err" /\ (cbState = HalfOpen \/ Cooled)) =>
          cbState' = Open]_vars

\* C17 (CBSpec): no more than maxRequests calls are passed to the service
\* during one HalfOpen period.
HalfOpenLimitsTrials == cbTrials <= cbCfg.maxRequests

\* C18 (CBSpec): a call made while Open with more than the cooldown passed
\* reaches the service as the first trial of a HalfOpen period, and a step
\* without a call (the clock advancing) leaves the state as it was.
OpenToHalfOpenOnRequest ==
    [][/\ (Called /\ cbState = Open /\ cbSinceFail > Cooldown) =>
              (ReachedService /\ cbTrials' = 1)
       /\ ~Called => cbState' = cbState]_vars

\* The cooldown has passed and no request has arrived: the state is Open.
OpenToHalfOpenWitness ==
    /\ cbState = Open
    /\ cbSinceFail > Cooldown
    /\ cbLast.result = "err"

AllFailed == \A k \in 1..Len(rtOutcomes) : rtOutcomes[k] = "err"

\* C20 (RTSpec): the service is called at most maxAttempts times and never
\* after a call that succeeded; ProcessOrder returns the response of the
\* first successful call with a nil error, and returns the zero response
\* with ErrMaxAttemptsExceeded exactly when maxAttempts calls have all failed.
AttemptBoundAndResult ==
    /\ Len(rtOutcomes) <= rtCfg.maxAttempts
    /\ \A k \in 1..(Len(rtOutcomes) - 1) : rtOutcomes[k] = "err"
    /\ (~AllFailed => rtPc = "returned")
    /\ rtPc = "returned" =>
           IF AllFailed
           THEN /\ Len(rtOutcomes) = rtCfg.maxAttempts
                /\ rtResult = [resp |-> ZeroResponse, err |-> ErrMaxAttemptsExceeded]
           ELSE rtResult = [resp |-> Response(Len(rtOutcomes)), err |-> Nil]
    /\ (AllFailed /\ Len(rtOutcomes) = rtCfg.maxAttempts) => rtPc = "returned"

\* All of three attempts failed and ProcessOrder has returned.
AttemptBoundWitness ==
    /\ rtPc = "returned"
    /\ rtCfg.maxAttempts = 3
    /\ Len(rtOutcomes) = 3
    /\ AllFailed
    /\ Len(rtWaits) = 2

\* C21 (RTSpec): when the caller's context is cancelled while ProcessOrder
\* is running (an attempt has been made and the call has not returned),
\* ProcessOrder makes no further call to the service and sits out no further
\* backoff delay.
CancellationStopsRetries ==
    [][(rtCtxDone /\ rtPc \in {"attempt", "wait"} /\ Len(rtOutcomes) >= 1) =>
          (rtOutcomes' = rtOutcomes /\ rtWaits' = rtWaits)]_vars

\* A step in which goroutine c carries on from the point in GetUser where it
\* has read the map and now reads the clock.
CaDecides(c) == caCalls[c].pc = "check" /\ caCalls'[c] # caCalls[c]

\* Goroutine c's call returns user in this step without having called the
\* service, and the map is left as it was.
CaServedFromCache(c, user) ==
    /\ caCalls'[c].pc = "idle"
    /\ caCalls'[c].user = user
    /\ caCalls'[c].err = Nil
    /\ ~caCalls'[c].invoked
    /\ caEntries' = caEntries

\* C22 as stated (CASpec): after a GetUser(id) of a goroutine fetched a user
\* from the service and stored it, a further GetUser(id) of that goroutine
\* that reads the clock while it is not after that entry's expiry returns
\* that same user without calling the service.
CacheHitSameUser ==
    [][\A c \in Callers :
          (/\ CaDecides(c)
           /\ caFetched[c].ok
           /\ caFetched[c].id = caCalls[c].id
           /\ caClock <= caFetched[c].ExpiresAt)
          => CaServedFromCache(c, caFetched[c].Value)]_vars

\* C22 (CASpec): a GetUser(id) that found an entry for id in the map and
\* reads the clock while it is not after that entry's expiry returns the
\* user of that entry without calling the service; that user is the one the
\* goroutine's own earlier fetch stored whenever the entry it read is still
\* that one (no other goroutine has stored an entry for id since).
CacheHit ==
    [][\A c \in Callers :
          (/\ CaDecides(c)
           /\ caCalls[c].cu.ok
           /\ caClock <= caCalls[c].cu.ExpiresAt)
          => /\ CaServedFromCache(c, caCalls[c].cu.Value)
             /\ (/\ caFetched[c].ok
                 /\ caFetched[c].id = caCalls[c].id
                 /\ caCalls[c].cu = Entry(caFetched[c].Value, caFetched[c].ExpiresAt))
                => caCalls'[c].user = caFetched[c].Value]_vars

\* A goroutine has been served, at the very expiry time of the entry, the
\* user its own earlier fetch stored.
CacheHitWitness ==
    \E c \in Callers :
        /\ caCalls[c].pc = "idle"
        /\ ~caCalls[c].invoked
        /\ caCalls[c].err = Nil
        /\ caFetched[c].ok
        /\ caFetched[c].id = caCalls[c].id
        /\ caCalls[c].user = caFetched[c].Value
        /\ caEntries[caCalls[c].id] = Entry(caFetched[c].Value, caFetched[c].ExpiresAt)
        /\ caClock = caFetched[c].ExpiresAt

\* C23 (CASpec): a GetUser(id) that found an entry for id and reads the
\* clock strictly after that entry's expiry calls the service again; when the
\* service returns a user, GetUser replaces the entry of id by that user with
\* the expiry (clock + ttl) and returns that user.
CacheExpiry ==
    [][\A c \in Callers :
          /\ (/\ CaDecides(c)
              /\ caCalls[c].cu.ok
              /\ caClock > caCalls[c].cu.ExpiresAt)
             => caCalls'[c].invoked
          /\ (caCalls[c].pc = "store" /\ caCalls'[c] # caCalls[c])
             => /\ caEntries' = [caEntries EXCEPT ![caCalls[c].id] =
                                    Entry(caCalls[c].user, caClock + caTtl)]
                /\ caCalls'[c] = CaReturned(caCalls[c].id, caCalls[c].user, Nil, TRUE)]_vars

\* A goroutine whose own earlier entry of id has expired has called the
\* service again for id and is about to store the user it was given.
CacheExpiryWitness ==
    \E c \in Callers :
        /\ caCalls[c].pc = "store"
        /\ caFetched[c].ok
        /\ caFetched[c].id = caCalls[c].id
        /\ caEntries[caCalls[c].id].ok
        /\ caClock > caEntries[caCalls[c].id].ExpiresAt
        /\ caCalls[c].user # caEntries[caCalls[c].id].Value

\* C24 (FailoverSpec): a corrupt lease record never blocks election. When
\* the lock file is malformed (created, but left empty by an elector that
\* was killed before it wrote its record), no elector is leader and some
\* competitor is running, a running competitor eventually becomes leader.
CorruptRecordNeverBlocks ==
    (/\ lockFile.exists
     /\ lockFile.data = <<>>
     /\ halted[lockFile.inode]
     /\ Leaders = {}
     /\ \E f \in Competitors : ~halted[f] /\ pc[f] # "init")
    ~> (\E f \in Competitors : ~halted[f] /\ IsLeader(f))

\* The identity named by a record written by Sprintf (one-character identity).
RecordHolder(data) == Head(data)

\* The lock file holds a record that names elector e as holder.
HoldsRecordOf(e) ==
    /\ lockFile.exists
    /\ lockFile.data # <<>>
    /\ RecordHolder(lockFile.data) = Identity(e)

\* C25 (Spec): a self-held record is reclaimed. When elector e, as Follower,
\* attempts acquisition while the lock file holds a record whose holder is
\* e's own identity, the attempt does not fail: e goes on to write its record
\* and become leader, whether or not the record has expired.
SelfHeldRecordReclaimed ==
    [][\A e \in Competitors :
          (/\ pc[e] \in {"acqRead", "acqOpen"}
           /\ pc'[e] # pc[e]
           /\ ~IsLeader(e)
           /\ HoldsRecordOf(e))
          => pc'[e] \in {"acqOpen", "acqWrite"}]_vars

\* The arbitration step by step (Spec): an acquisition attempt that reaches
\* os.OpenFile while no file exists creates the file and goes on to write;
\* one that reaches it while a file exists returns failure and changes
\* neither the file nor any role nor any callback count; a successful write
\* to the file the elector created leaves a record naming it, with the
\* current time.
ExclusiveCreateStep ==
    [][\A e \in Competitors :
          /\ (pc[e] = "acqOpen" /\ pc'[e] # pc[e] /\ ~lockFile.exists)
             => /\ pc'[e] = "acqWrite"
                /\ lockFile'.exists /\ lockFile'.inode = e
          /\ (pc[e] = "acqOpen" /\ pc'[e] # pc[e] /\ lockFile.exists)
             => /\ pc'[e] = "select"
                /\ UNCHANGED <<lockFile, isLeader, started, stopped>>
          /\ (/\ pc[e] = "acqWrite" /\ pc'[e] = "becomeLeader"
              /\ lockFile.exists /\ lockFile.inode = e)
             => /\ lockFile'.data = Sprintf(Identity(e), now)
                /\ HoldsRecordOf(e)']_vars

\* The same arbitration in the AcquireLease/MonitorLease elector (FLSpec).
FileExclusiveCreate ==
    [][\A n \in Nodes :
          /\ (flPc[n] = "acqOpen" /\ flPc'[n] # flPc[n] /\ ~flFile.exists)
             => /\ flPc'[n] = "acqWrite"
                /\ flFile'.exists /\ flFile'.inode = n
          /\ (flPc[n] = "acqOpen" /\ flPc'[n] # flPc[n] /\ flFile.exists)
             => /\ flPc'[n] = "acqSelect"
                /\ flFile' = flFile
          /\ (/\ flPc[n] = "acqWrite" /\ flPc'[n] = "monSelect"
              /\ flFile.exists /\ flFile.inode = n)
             => flFile'.data = LeaseData(NodeID(n), flNow)]_vars

\* The lock file holds an unexpired record whose holder is not elector e.
ValidRecordOfAnother(e) ==
    /\ lockFile.exists
    /\ lockFile.data # <<>>
    /\ RecordHolder(lockFile.data) # Identity(e)
    /\ now - RecordTimestamp(lockFile.data) <= LeaseDuration

\* C27 (Spec): a failed acquisition changes nothing. Every step of a
\* Follower's tryAcquireLease taken while the lock file holds an unexpired
\* record of another identity leaves the file, every role and every callback
\* count unchanged, and the attempt returns failure from os.OpenFile: the
\* Follower is back in its loop, still Follower.
FailedAcquisitionChangesNothing ==
    [][\A e \in Competitors :
          (/\ pc[e] \in {"acqRead", "acqOpen"}
           /\ pc'[e] # pc[e]
           /\ ~IsLeader(e)
           /\ ValidRecordOfAnother(e))
          => /\ UNCHANGED <<lockFile, isLeader, started, stopped>>
             /\ pc'[e] \in {"acqOpen", "select"}
             /\ pc[e] = "acqOpen" => pc'[e] = "select"]_vars

\* A Follower is in the middle of an attempt, about to call os.OpenFile,
\* while another elector leads with an unexpired record.
FailedAcquisitionWitness ==
    \E e, f \in Competitors :
        /\ e # f
        /\ pc[e] = "acqOpen" /\ ~IsLeader(e)
        /\ ValidRecordOfAnother(e)
        /\ IsLeader(f) /\ HoldsRecordOf(f)

\* The same frame property in the AcquireLease/MonitorLease elector (FLSpec):
\* the attempt of a node that finds an unexpired record of another node
\* leaves the file unchanged and ends in the retry loop.
FileFailedAcquisition ==
    [][\A n \in Nodes :
          (/\ flPc[n] \in {"acqRead", "acqOpen"}
           /\ flPc'[n] # flPc[n]
           /\ ~ReadLease(flFile).err
           /\ ReadLease(flFile).holder # NodeID(n)
           /\ flNow - ReadLease(flFile).timestamp <= leaseDuration)
          => /\ flFile' = flFile
             /\ flPc'[n] \in {"acqOpen", "acqSelect"}
             /\ flPc[n] = "acqOpen" => flPc'[n] = "acqSelect"]_vars

\* C28 (StopSpec): Stop always terminates the elector. Once the context of
\* an elector whose Run is executing is cancelled (by Stop() or by the
\* caller), Run eventually returns, whether os.Remove succeeds or fails; an
\* elector whose Run has returned is not leader; and when os.Remove succeeded
\* the lock file is gone at the moment Run returns.
StopAlwaysTerminates ==
    /\ \A e \in Competitors :
          (ctxDone[e] /\ pc[e] # "init") ~> (pc[e] = "returned")
    /\ [](\A e \in Competitors : pc[e] = "returned" => ~IsLeader(e))
    /\ [][\A e \in Competitors :
             (pc[e] = "relRemove" /\ pc'[e] = "returned" /\ faults' = faults)
                => ~lockFile'.exists]_vars

\* Two returns of Run after Stop(): a leader's, whose os.Remove failed and
\* left its record behind, seen here after the other elector has returned too.
StopTerminatesWitness ==
    \E e, f \in Competitors :
        /\ e # f
        /\ pc[e] = "returned" /\ ctxDone[e] /\ started[e] = 1 /\ relStopped[e] = 1
        /\ pc[f] = "returned"
        /\ HoldsRecordOf(e)
        /\ faults > 0

\* C29 (Spec): Run returns only on cancellation. In every state in which
\* Run has been started and its context has not been cancelled (neither by
\* Stop() after Run started nor by the caller), Run has not returned,
\* whatever acquisitions, renewals and file operations have failed; and Run
\* returns from nowhere but the end of releaseLease.
RunReturnsOnlyOnCancel ==
    /\ [](\A e \in Competitors : (pc[e] # "init" /\ ~ctxDone[e]) => pc[e] # "returned")
    /\ [][\A e \in Competitors :
             (pc[e] # "returned" /\ pc'[e] = "returned")
                => (pc[e] = "relRemove" /\ ctxDone[e])]_vars

\* An elector whose renewal has failed on a file error, and which has since
\* failed to acquire, is back in its loop with its context not cancelled.
RunStillLoopingWitness ==
    \E e \in Competitors :
        /\ pc[e] = "select"
        /\ ~ctxDone[e]
        /\ renewals[e] = "failed"
        /\ faults > 0
        /\ ~IsLeader(e)
        /\ stopped[e] = 1

\* The form identity:timestamp: exactly one colon, followed by a decimal
\* integer (an optional sign and at least one digit).
ColonAt(data) == CHOOSE i \in 1..Len(data) : data[i] = ":"
IsInteger(s) ==
    LET body == IF s # <<>> /\ Head(s) \in {"+", "-"} THEN Tail(s) ELSE s
    IN  body # <<>> /\ \A i \in 1..Len(body) : IsDigit(body[i])
WellFormed(data) ==
    /\ Cardinality({i \in 1..Len(data) : data[i] = ":"}) = 1
    /\ IsInteger(SubSeq(data, ColonAt(data) + 1, Len(data)))
HolderOf(data) == SubSeq(data, 1, ColonAt(data) - 1)
StampOf(data) ==
    LET s == SubSeq(data, ColonAt(data) + 1, Len(data))
    IN  IF Head(s) = "-" THEN 0 - Atoi(Tail(s))
        ELSE IF Head(s) = "+" THEN Atoi(Tail(s))
        ELSE Atoi(s)

\* C30 (FLPredSpec): the lease validity predicates of the file-based
\* elector. isLeaseExpired is true exactly when the lock file is missing, is
\* not of the form identity:timestamp, or its timestamp is more than
\* leaseDuration in the past; isCurrentLeader of a node is true exactly when
\* the file is of that form, its identity is the node's and its timestamp is
\* at most leaseDuration in the past; so no node judges the record expired
\* while its holder judges itself current leader. A failed read of the file
\* counts as expired in tryAcquireLease and as not leader in MonitorLease.
LeaseValidityPredicates ==
    /\ [](\A n \in Nodes :
            /\ FlIsLeaseExpired(flFile, flNow)
                  <=> \/ ~flFile.exists
                      \/ ~WellFormed(flFile.data)
                      \/ flNow - StampOf(flFile.data) > leaseDuration
            /\ IsCurrentLeader(n, flFile, flNow)
                  <=> /\ flFile.exists
                      /\ WellFormed(flFile.data)
                      /\ HolderOf(flFile.data) = NodeID(n)
                      /\ flNow - StampOf(flFile.data) <= leaseDuration
            /\ IsCurrentLeader(n, flFile, flNow) => ~FlIsLeaseExpired(flFile, flNow))
    /\ [][\A n \in Nodes :
             /\ (flPc[n] = "acqRead" /\ flPc'[n] # flPc[n])
                   => (flPc'[n] = "acqOpen")
                         <=> (flFaults' # flFaults \/ FlIsLeaseExpired(flFile, flNow))
             /\ (flPc[n] = "monSelect" /\ flPc'[n] \in {"monShouldRenew", "monLost"})
                   => (flPc'[n] = "monShouldRenew")
                         <=> (flFaults' = flFaults /\ IsCurrentLeader(n, flFile, flNow))]_vars

\* A node monitors its own record, which is exactly leaseDuration old: it
\* judges itself current leader, and another node, having judged the record
\* not expired, waits in its retry loop.
LeaseValidityWitness ==
    \E n, m \in Nodes :
        /\ n # m
        /\ flPc[n] = "monSelect"
        /\ flPc[m] = "acqSelect"
        /\ flFile.exists
        /\ WellFormed(flFile.data)
        /\ HolderOf(flFile.data) = NodeID(n)
        /\ flNow - StampOf(flFile.data) = leaseDuration
        /\ IsCurrentLeader(n, flFile, flNow)

\* C26 (TrioSpec): exclusive-create arbitration. Of the attempts made
\* concurrently against a slot with no record exactly one succeeds: while an
\* elector is between its successful os.OpenFile and the end of becomeLeader,
\* no other elector's os.OpenFile succeeds.
ExactlyOneAttemptSucceeds ==
    Cardinality({e \in Electors : pc[e] \in {"acqWrite", "becomeLeader", "onStarted"}}) <= 1

\* C31 (Spec): expiry detection of the Run/IsLeader elector. For a record
\* written by the elector itself, isLeaseExpired returns false while less
\* than LeaseDuration has elapsed since the write and true once more than
\* LeaseDuration has elapsed.
ExpiryDetection ==
    (lockFile.exists /\ lockFile.data # <<>>)
        => /\ now - RecordTimestamp(lockFile.data) < LeaseDuration
                => ~IsLeaseExpired(lockFile, now)
           /\ now - RecordTimestamp(lockFile.data) > LeaseDuration
                => IsLeaseExpired(lockFile, now)

\* C32 (FLOnTimeSpec): the renewal schedule keeps the lease valid. With
\* every check made on time and every rewrite succeeding, at every check of
\* a monitoring node the record is the node's own and at most leaseDuration
\* old, and MonitorLease never finds the lease lost (onShutdown is not
\* called).
RenewalScheduleKeepsLease ==
    \A n \in Nodes :
        /\ flPc[n] \notin {"monLost", "monLostRemove", "monLostReturn"}
        /\ flPc[n] \in {"monSelect", "monShouldRenew", "monRenew"}
              => /\ ~ReadLease(flFile).err
                 /\ ReadLease(flFile).holder = NodeID(n)
                 /\ flNow - ReadLease(flFile).timestamp <= leaseDuration

\* A node is at a check at the end of the clock's range with a record
\* exactly leaseDuration old, written by an earlier renewal.
RenewalScheduleWitness ==
    \E n \in Nodes :
        /\ flPc[n] = "monSelect"
        /\ flNow = FlMaxTime
        /\ ~ReadLease(flFile).err
        /\ ReadLease(flFile).timestamp > 0
        /\ flNow - ReadLease(flFile).timestamp = leaseDuration

\* The parts of the shutdown protocol of MonitorLease that hold whichever
\* case the select takes: onShutdown is called at most once (after it, the
\* node only removes the file and returns); the lease-lost branch is entered
\* only from a check at which the node is not current leader or cannot read
\* the file; the cancellation branch is entered only with the context
\* cancelled and calls no onShutdown; and each exit removes the lock file
\* before MonitorLease returns.
ShutdownExits ==
    \A n \in Nodes :
        /\ flPc[n] \in {"monLostRemove", "monLostReturn"}
              => flPc'[n] \in {"monLostRemove", "monLostReturn", "exited"}
        /\ (flPc[n] # "monLost" /\ flPc'[n] = "monLost")
              => /\ flPc[n] = "monSelect"
                 /\ ~IsCurrentLeader(n, flFile, flNow) \/ flFaults' # flFaults
        /\ (flPc[n] # "monCancelled" /\ flPc'[n] = "monCancelled")
              => (flPc[n] = "monSelect" /\ flCtxDone[n])
        /\ flPc[n] \in {"monCancelled", "monCancelReturn"}
              => flPc'[n] \in {"monCancelled", "monCancelReturn", "exited"}
        /\ (flPc[n] = "monCancelled" /\ flPc'[n] = "monCancelReturn") => ~flFile'.exists
        /\ (flPc[n] = "monLostRemove" /\ flPc'[n] = "monLostReturn") => ~flFile'.exists
        /\ (flPc[n] # "exited" /\ flPc'[n] = "exited")
              => flPc[n] \in {"monCancelReturn", "monLostReturn"}

Acquiring == {"new", "acqRead", "acqOpen", "acqWrite", "acqCleanup", "acqSelect"}

\* What holds of AcquireLease whichever case its select takes: an attempt
\* starts only at the call or on a tick of the retry ticker; AcquireLease
\* leaves only by returning nil or the context's error; it returns nil only
\* from its own attempt's successful write, which leaves the file it created
\* holding its identity and the current time; it returns the context's error
\* only from the select with the context cancelled, and then no file created
\* by this node exists.
AcquireLeaseExits ==
    \A n \in Nodes :
        /\ (flPc[n] \notin {"acqRead", "acqOpen"} /\ flPc'[n] \in {"acqRead", "acqOpen"})
              => flPc[n] \in {"new", "acqSelect"}
        /\ flPc[n] \in Acquiring => flPc'[n] \in Acquiring \cup {"monSelect", "failed"}
        /\ (flPc[n] # "monSelect" /\ flPc'[n] = "monSelect" /\ flPc[n] \in Acquiring)
              => /\ flPc[n] = "acqWrite"
                 /\ flFile'.exists /\ flFile'.inode = n
                 /\ flFile'.data = LeaseData(NodeID(n), flNow)
        /\ (flPc[n] # "failed" /\ flPc'[n] = "failed")
              => /\ flPc[n] = "acqSelect" /\ flCtxDone[n]
                 /\ ~(flFile'.exists /\ flFile'.inode = n)

CallbacksAlternate ==
    /\ [](\A e \in Competitors : started[e] - stopped[e] \in {0, 1})
    /\ [][\A e \in Competitors :
             /\ started'[e] # started[e]
                   => /\ pc[e] = "onStarted"
                      /\ started'[e] = started[e] + 1
                      /\ started[e] = stopped[e]
                      /\ stopped' = stopped
             /\ stopped'[e] # stopped[e]
                   => /\ pc[e] \in {"tickOnStopped", "relOnStopped"}
                      /\ stopped'[e] = stopped[e] + 1
                      /\ started[e] = stopped[e] + 1
                      /\ started' = started]_vars

\* An elector has gone through two full rounds: started, stopped after a
\* failed renewal, started again, stopped on release.
CallbacksAlternateWitness ==
    \E e \in Competitors :
        /\ started[e] = 2 /\ stopped[e] = 2
        /\ relStopped[e] = 1
        /\ pc[e] = "returned"

\* C36: the mutex is never held across a store operation or a callback --
\* while the Run loop is at a file operation or inside a callback it
\* neither holds the mutex nor waits for it -- and so every IsLeader()
\* call returns, whether it comes from another goroutine or from inside
\* OnStartedLeading/OnStoppedLeading, and every Lock() of the loop is
\* granted: no caller and the loop ever wait for each other for ever.
MutexFreeOutsideFlagAccess ==
    mxLoop \in StorePositions \cup CallbackPositions
        => ~mxWriter /\ ~mxPending /\ Loop \notin mxReaders

MutexGuardsOnlyTheFlag ==
    /\ []MutexFreeOutsideFlagAccess
    /\ \A t \in Threads : (mxThreads[t] = "wait") ~> (mxThreads[t] = "idle")
    /\ (mxLoop = "cbRLock") ~> (mxLoop \in {"onStartedRest", "onStoppedRest"})
    /\ (mxLoop \in {"downLock", "upLock"}) ~> (mxLoop \in {"downWrite", "upWrite"})

\* The leader's callback is inside IsLeader() while another goroutine is
\* inside IsLeader() too.
MutexWitness ==
    /\ mxLoop = "cbRead"
    /\ mxRole
    /\ \E t \in Threads : mxThreads[t] = "read"

\* C37: in every reachable state of the circuit breaker, state Open implies
\* failures >= failureThreshold and state Closed implies
\* failures < failureThreshold.
StateCounterInvariant ==
    /\ cbState = Open => cbFailures >= cbCfg.failureThreshold
    /\ cbState = Closed => cbFailures < cbCfg.failureThreshold

\* The circuit was reopened from HalfOpen by a further failure: it is Open
\* with more failures counted than the threshold.
StateCounterWitness ==
    /\ cbState = Open
    /\ cbFailures > cbCfg.failureThreshold
    /\ cbLast.result = "err"

\* The number of waits of the call so far: one after every failed attempt
\* that another attempt follows, none after the last attempt.
OneWaitBetweenAttempts ==
    Len(rtWaits) = IF rtPc = "attempt" THEN Len(rtOutcomes)
                   ELSE IF rtOutcomes = <<>> THEN 0
                   ELSE Len(rtOutcomes) - 1

\* C38: the wait after failed attempt number i (counted from 0) is
\* min(initialInterval * multiplier^i, maxInterval); there is one wait
\* between consecutive attempts and no wait after the last attempt.
ExponentialBackoffWithCap ==
    /\ \A k \in 1..Len(rtWaits) :
           rtWaits[k] = Min(rtCfg.initialInterval * Pow(rtCfg.multiplier, k - 1),
                            rtCfg.maxInterval)
    /\ OneWaitBetweenAttempts

\* What holds of C38: the schedule of the waits, and the value of every wait
\* whose product initialInterval * multiplier^i an int64 can represent.
BackoffWithinInt64 ==
    /\ \A k \in 1..Len(rtWaits) :
           FloatDelay(k - 1) <= MaxInt64 =>
               rtWaits[k] = Min(FloatDelay(k - 1), rtCfg.maxInterval)
    /\ OneWaitBetweenAttempts

\* A lookup of this entry at the present time is a miss.
CaMisses(e) == ~(e.ok /\ ~IsExpired(e))

\* Goroutine c's call returns in this step from a call of the service that
\* failed.
CaFetchFails(c) ==
    /\ caCalls[c].pc = "check"
    /\ caCalls'[c].pc = "idle"
    /\ caCalls'[c].invoked

\* C39: when GetUser(id) misses (no entry or an expired one) and the service
\* returns an error, GetUser returns the zero User with the error that wraps
\* the service's, and the cache contents are unchanged; the entry of id, if
\* it is still the one this call looked up, is a miss for the next
\* GetUser(id) as well, which therefore calls the service again.
FailedFetchNotCached ==
    [][\A c \in Callers :
          CaFetchFails(c) =>
              /\ CaMisses(caCalls[c].cu)
              /\ caCalls'[c].user = ZeroUser
              /\ caCalls'[c].err = ErrGetUser
              /\ caEntries' = caEntries
              /\ caEntries'[caCalls[c].id] = caCalls[c].cu
                     => CaMisses(caEntries'[caCalls[c].id])]_vars

\* A call has returned the error of the service, and the expired entry of
\* its id is still in the map.
FailedFetchWitness ==
    \E c \in Callers :
        /\ caCalls[c].pc = "idle"
        /\ caCalls[c].err = ErrGetUser
        /\ caCalls[c].invoked
        /\ caEntries[caCalls[c].id].ok
        /\ IsExpired(caEntries[caCalls[c].id])

====
